---- MODULE Spec2Model ----
(***************************************************************************)
(* Model of the render pipeline of FFmpeg-Commands (src/Render.py and the  *)
(* FileOperations methods it calls while patching metadata and artwork).   *)
(*                                                                         *)
(* The state is the part of the filesystem the pipeline touches and, per   *)
(* pipeline call, the position of the call in its code and its locals.     *)
(* One action is one step of the code: a dependency check, one run of an   *)
(* external tool, or one filesystem operation.  The external tools         *)
(* (ffmpeg, ffprobe, AtomicParsley) are nondeterministic: they end with    *)
(* status zero or not, and they write their output file or not.  The       *)
(* tools are taken to be installed and open_after_ren to be False.  All    *)
(* declared outputs lie in one directory, OutDir.                          *)
(***************************************************************************)
EXTENDS Integers, FiniteSets, Sequences, TLC

\* ---------------------------------------------------------------- bounds
MaxOutputs == 2
MaxInputs == 2
Calls == {1, 2}

\* ----------------------------------------------------------------- paths
\* A path is <<kind, call, index>>; 0 where a component does not apply.
OutDir == <<"outdir", 0, 0>>
\* Render.py:136-137, out_path.parent / '--temp_dir_to_embed_metadata_silently'
temp_directory_to_embed_metadata == <<"tmp", 0, 0>>
InPath(c, i) == <<"in", c, i>>
OutPath(c, k) == <<"out", c, k>>
\* Render.py:139, temp dir / (out_path.stem + out_path.suffix)
temp_out_file(c, k) == <<"tout", c, k>>
\* FileOperations.py:239, out_dir / (in_path.stem + '.jpg')
art_ext_out_path(c) == <<"tart", c, 0>>
\* FileOperations.py:179-180, out_dir / (stem + '-temp_rm_art_before_renaming' + suffix)
temp_rm_artwork_path(c, k) == <<"trm", c, k>>
\* FileOperations.py:204, the NAME-resized-NNNN.jpg file AtomicParsley leaves
resized_artwork(c) == <<"trz", c, 0>>

TmpChildren ==
    {temp_out_file(c, k) : c \in Calls, k \in 1..MaxOutputs}
    \cup {temp_rm_artwork_path(c, k) : c \in Calls, k \in 1..MaxOutputs}
    \cup {art_ext_out_path(c) : c \in Calls}
    \cup {resized_artwork(c) : c \in Calls}

Paths ==
    {OutDir, temp_directory_to_embed_metadata}
    \cup {InPath(c, i) : c \in Calls, i \in 1..MaxInputs}
    \cup {OutPath(c, k) : c \in Calls, k \in 1..MaxOutputs}
    \cup TmpChildren

Parent(p) == IF p \in TmpChildren THEN temp_directory_to_embed_metadata ELSE OutDir

\* What is at a path: nothing, a directory, or a file with the named content.
FileContents == {"orig", "old", "primary", "patched", "noart", "art", "embedded", "tagged"}
Entries == {"none", "dir"} \cup FileContents

\* pathlib.Path.exists / is_file / is_dir
Exists(f, p) == f[p] # "none"
IsFile(f, p) == f[p] \in FileContents
IsDir(f, p) == f[p] = "dir"
DirEmpty(f, d) == \A p \in TmpChildren : Parent(p) = d => f[p] = "none"

\* ------------------------------------------------------------- suffixes
Suffixes == {".mp4", ".m4a", ".mkv"}
IsFfmpegArtSuffix(s) == s = ".mp3" \/ s = ".mp4"
IsAtomicParsleySuffix(s) == s = ".m4v" \/ s = ".m4a"

VARIABLES
    fs,        \* the filesystem: Paths -> Entries
    cfg,       \* per call: the arguments of the call
    pc,        \* per call: position in the code
    idx,       \* per call: index of out_path in the loop of Render.py:135
    res,       \* per call: out_file_exists_result (Render.py:122)
    temp_art,  \* per call: what extract_artwork returned (Render.py:150)
    rm_res,    \* per call: temp_rm_art_exists (FileOperations.py:173)
    ret,       \* per call: the value the call returned
    ops,       \* per call: the steps the call has taken, <<name, index>>
    fn_in,     \* the call of a MetadataAcquisition method: its name and arguments
    fn_out     \* what that call ended with

vars == <<fs, cfg, pc, idx, res, temp_art, rm_res, ret, ops, fn_in, fn_out>>

\* No MetadataAcquisition method is being followed.
NoCall == [fn |-> "none"]
NoResult == [kind |-> "none"]

Configs ==
    [artwork : BOOLEAN, print_ren_info : BOOLEAN, out_suffix : Suffixes,
     in_suffix : {".mp4", ".mkv"}, nOut : 1..MaxOutputs, nIn : 1..MaxInputs]

IdleConfig ==
    [artwork |-> FALSE, print_ren_info |-> FALSE, out_suffix |-> ".mp4",
     in_suffix |-> ".mp4", nOut |-> 1, nIn |-> 1]

Ended(c) == pc[c] \in {"returned", "quit", "raised"}
Did(c, name, k) == <<name, k>> \in ops[c]
DidAny(c, name) == \E k \in 0..MaxOutputs : Did(c, name, k)

\* in_meta_file, Render.py:124-127: the first declared input
in_meta_file(c) == InPath(c, 1)


\* ------------------------------------------------------- initial states
\* One pipeline call, on any filesystem.
Init ==
    /\ \E g \in Configs : cfg = [c \in Calls |-> IF c = 1 THEN g ELSE IdleConfig]
    /\ pc = [c \in Calls |-> IF c = 1 THEN "check" ELSE "idle"]
    /\ idx = [c \in Calls |-> 1]
    /\ res = [c \in Calls |-> "none"]
    /\ temp_art = [c \in Calls |-> "none"]
    /\ rm_res = [c \in Calls |-> "none"]
    /\ ret = [c \in Calls |-> "none"]
    /\ ops = [c \in Calls |-> {}]
    /\ fn_in = NoCall
    /\ fn_out = NoResult
    /\ \E o \in {"dir", "none"} :
       \E ins \in [1..MaxInputs -> {"orig", "dir", "none"}] :
       \E outs \in [1..MaxOutputs -> {"none", "old", "dir"}] :
          /\ \A i \in 1..MaxInputs : i > cfg[1].nIn => ins[i] = "none"
          /\ \A k \in 1..MaxOutputs : (k > cfg[1].nOut \/ o = "none") => outs[k] = "none"
          /\ fs = [p \in Paths |->
                    IF p = OutDir THEN o
                    ELSE IF p[1] = "in" /\ p[2] = 1 THEN ins[p[3]]
                    ELSE IF p[1] = "out" /\ p[2] = 1 THEN outs[p[3]]
                    ELSE "none"]

\* --------------------------------------------------------- step helpers
Goto(c, label) == pc' = [pc EXCEPT ![c] = label]
Log(c, names) == ops' = [ops EXCEPT ![c] = @ \cup {<<n, idx[c]>> : n \in names}]
Upd(f, p, v) == [f EXCEPT ![p] = v]
\* pathlib.Path.rename on a POSIX system
Move(f, s, d) == [f EXCEPT ![d] = f[s], ![s] = "none"]
\* an external tool can write its output file
CanWrite(f, p) == f[p] = "none" /\ IsDir(f, Parent(p))

\* Render.py:44-61, the checks of check_depend_then_ren
DependOK(f, ins, outs) ==
    /\ \A i \in ins : Exists(f, i) /\ IsFile(f, i)
    /\ \A o \in outs : ~IsFile(f, o) /\ Exists(f, Parent(o))

Inputs(c) == {InPath(c, i) : i \in 1..cfg[c].nIn}
Outputs(c) == {OutPath(c, k) : k \in 1..cfg[c].nOut}
out_path(c) == OutPath(c, idx[c])

\* ------------------------------------------------------ primary phase
\* The test of Render.py:130 gone wrong: the patch phase is entered whatever
\* the primary phase reported.
EnterPatchPhaseAlways(r) == r \in {"True", "False"}

\* Render.py:130, the test that opens the patch phase
EnterPatchPhase(r) == r = "True"

\* Render.py:33-61, check_depend_then_ren up to the call of run_terminal_cmd:
\* quit() unless every input is an existing file, no output is a file and
\* every output's parent exists.
check_depend_then_ren(c) ==
    /\ pc[c] = "check"
    /\ Goto(c, IF DependOK(fs, Inputs(c), Outputs(c)) THEN "run" ELSE "quit")
    /\ Log(c, {"check"})
    /\ UNCHANGED <<fs, cfg, idx, res, temp_art, rm_res, ret>>

\* Render.py:65-112, run_terminal_cmd on the caller's command: the tool ends
\* with status zero (True) or not (False) and writes any of the outputs.
run_terminal_cmd(c) ==
    /\ pc[c] = "run"
    /\ \E ok \in BOOLEAN : \E made \in SUBSET (1..cfg[c].nOut) :
          /\ \A k \in made : CanWrite(fs, OutPath(c, k))
          /\ fs' = [p \in Paths |->
                      IF p[1] = "out" /\ p[2] = c /\ p[3] \in made THEN "primary" ELSE fs[p]]
          /\ res' = [res EXCEPT ![c] = IF ok THEN "True" ELSE "False"]
          /\ ops' = [ops EXCEPT ![c] = @ \cup {<<"tool", 0>>} \cup {<<"produced", k>> : k \in made}]
    /\ Goto(c, "test_result")
    /\ UNCHANGED <<cfg, idx, temp_art, rm_res, ret>>

\* Render.py:122-130 and 162-164: enter the loop over the outputs, or
\* return False.
test_result(c) ==
    /\ pc[c] = "test_result"
    /\ IF EnterPatchPhase(res[c])
       THEN /\ Goto(c, "mkdir")
            /\ idx' = [idx EXCEPT ![c] = 1]
            /\ UNCHANGED ret
       ELSE /\ Goto(c, "returned")
            /\ ret' = [ret EXCEPT ![c] = "False"]
            /\ UNCHANGED idx
    /\ UNCHANGED <<fs, cfg, res, temp_art, rm_res, ops>>

\* ------------------------------------------------ patch phase, metadata
\* Render.py:136-138, paths.Path.mkdir: FileExistsError when the directory
\* is there, FileNotFoundError when its parent is not.
mkdir_temp_directory(c) ==
    /\ pc[c] = "mkdir"
    /\ IF ~Exists(fs, temp_directory_to_embed_metadata) /\ IsDir(fs, OutDir)
       THEN /\ fs' = Upd(fs, temp_directory_to_embed_metadata, "dir")
            /\ Goto(c, "cm_check")
            /\ Log(c, {"mkdir"})
       ELSE /\ Goto(c, "raised")
            /\ UNCHANGED <<fs, ops>>
    /\ UNCHANGED <<cfg, idx, res, temp_art, rm_res, ret>>

\* Render.py:140-141 -> FileOperations.py:115-127 -> Render.py:44-61: the
\* nested check_depend_then_ren of copy_over_metadata; its input is out_path,
\* its output temp_out_file.
copy_over_metadata_check(c) ==
    /\ pc[c] = "cm_check"
    /\ Goto(c, IF DependOK(fs, {out_path(c)}, {temp_out_file(c, idx[c])})
               THEN "cm_run" ELSE "quit")
    /\ Log(c, {"patch_check"})
    /\ UNCHANGED <<fs, cfg, idx, res, temp_art, rm_res, ret>>

\* Render.py:65-112 for the command of FileOperations.py:121-124: ffmpeg
\* writes the patched copy or not; the result is not looked at.
copy_over_metadata_run(c) ==
    /\ pc[c] = "cm_run"
    /\ \/ /\ CanWrite(fs, temp_out_file(c, idx[c]))
          /\ fs' = Upd(fs, temp_out_file(c, idx[c]), "patched")
       \/ UNCHANGED fs
    /\ Goto(c, "test_temp_out")
    /\ Log(c, {"patch_tool"})
    /\ UNCHANGED <<cfg, idx, res, temp_art, rm_res, ret>>

\* Render.py:142, temp_out_file.exists()
test_temp_out_file(c) ==
    /\ pc[c] = "test_temp_out"
    /\ IF Exists(fs, temp_out_file(c, idx[c]))
       THEN Goto(c, "unlink_out") /\ Log(c, {"patch_found"})
       ELSE Goto(c, "rmdir_missing") /\ Log(c, {"patch_missing"})
    /\ UNCHANGED <<fs, cfg, idx, res, temp_art, rm_res, ret>>

\* pathlib.Path.rmdir: an error unless the path is an empty directory
CanRmdir(f, d) == IsDir(f, d) /\ DirEmpty(f, d)

\* Render.py:143-145, the patched copy is missing: remove the directory
rmdir_missing(c) ==
    /\ pc[c] = "rmdir_missing"
    /\ IF CanRmdir(fs, temp_directory_to_embed_metadata)
       THEN /\ fs' = Upd(fs, temp_directory_to_embed_metadata, "none")
            /\ Goto(c, "test_artwork")
            /\ Log(c, {"rmdir_missing"})
       ELSE /\ Goto(c, "raised")
            /\ UNCHANGED <<fs, ops>>
    /\ UNCHANGED <<cfg, idx, res, temp_art, rm_res, ret>>

\* Render.py:147, out_path.unlink()
unlink_out_path(c) ==
    /\ pc[c] = "unlink_out"
    /\ IF IsFile(fs, out_path(c))
       THEN /\ fs' = Upd(fs, out_path(c), "none")
            /\ Goto(c, "rename_temp_out")
            /\ Log(c, {"unlink_out"})
       ELSE /\ Goto(c, "raised")
            /\ UNCHANGED <<fs, ops>>
    /\ UNCHANGED <<cfg, idx, res, temp_art, rm_res, ret>>

\* Render.py:148, temp_out_file.rename(out_path)
rename_temp_out_file(c) ==
    /\ pc[c] = "rename_temp_out"
    /\ IF IsFile(fs, temp_out_file(c, idx[c])) /\ ~IsDir(fs, out_path(c))
       THEN /\ fs' = Move(fs, temp_out_file(c, idx[c]), out_path(c))
            /\ Goto(c, "test_artwork")
            /\ Log(c, {"rename_out"})
       ELSE /\ Goto(c, "raised")
            /\ UNCHANGED <<fs, ops>>
    /\ UNCHANGED <<cfg, idx, res, temp_art, rm_res, ret>>

\* Render.py:149, if artwork is True
test_artwork(c) ==
    /\ pc[c] = "test_artwork"
    /\ Goto(c, IF cfg[c].artwork THEN "ea_suffix" ELSE "rmdir_final")
    /\ UNCHANGED <<fs, cfg, idx, res, temp_art, rm_res, ret, ops>>

\* ------------------------------------------------- patch phase, artwork
\* MetadataAcquisition.py:230-261, return_stream_types, as its callers use
\* it: quit() when the path is not an existing file (_check_file_exists),
\* an AttributeError when the probe text has no stream listing
\* (None.splitlines()), else whether 'Artwork' is among the stream types.
StreamProbe(f, p) == IF IsFile(f, p) THEN {"art", "noart", "nostream"} ELSE {"quit"}

\* FileOperations.py:231-232, the extensions artwork can be extracted from
IsArtworkSuffix(s) == s \in {".mp3", ".mp4", ".m4a", ".m4v"}

\* FileOperations.py:231-236, the guard of extract_artwork's early return;
\* print_err is the 4th constructor argument, self.print_ren_info at
\* Render.py:150-151.
ExtractUnsupported(suffix, print_err) == ~IsArtworkSuffix(suffix) /\ print_err

\* Render.py:150-151 -> FileOperations.py:227-236
extract_artwork_suffix(c) ==
    /\ pc[c] = "ea_suffix"
    /\ IF ExtractUnsupported(cfg[c].in_suffix, cfg[c].print_ren_info)
       THEN /\ temp_art' = [temp_art EXCEPT ![c] = "False"]
            /\ Goto(c, "test_temp_art")
       ELSE /\ Goto(c, "ea_probe")
            /\ UNCHANGED temp_art
    /\ UNCHANGED <<fs, cfg, idx, res, rm_res, ret, ops>>

\* FileOperations.py:245-250, the probe of the input's streams
extract_artwork_probe(c) ==
    /\ pc[c] = "ea_probe"
    /\ \E o \in StreamProbe(fs, in_meta_file(c)) :
          \/ /\ o = "quit" /\ Goto(c, "quit") /\ UNCHANGED temp_art
          \/ /\ o = "nostream" /\ Goto(c, "raised") /\ UNCHANGED temp_art
          \/ /\ o = "noart" /\ Goto(c, "test_temp_art")
             /\ temp_art' = [temp_art EXCEPT ![c] = "False"]
          \/ /\ o = "art" /\ Goto(c, "ea_check") /\ UNCHANGED temp_art
    /\ Log(c, {"probe_in"})
    /\ UNCHANGED <<fs, cfg, idx, res, rm_res, ret>>

\* FileOperations.py:254-256 -> Render.py:44-61
extract_artwork_check(c) ==
    /\ pc[c] = "ea_check"
    /\ Goto(c, IF DependOK(fs, {in_meta_file(c)}, {art_ext_out_path(c)})
               THEN "ea_run" ELSE "quit")
    /\ UNCHANGED <<fs, cfg, idx, res, temp_art, rm_res, ret, ops>>

\* Render.py:65-112 for the command of FileOperations.py:243, then
\* FileOperations.py:257: the path is returned whatever the render did.
extract_artwork_run(c) ==
    /\ pc[c] = "ea_run"
    /\ \/ /\ CanWrite(fs, art_ext_out_path(c))
          /\ fs' = Upd(fs, art_ext_out_path(c), "art")
       \/ UNCHANGED fs
    /\ temp_art' = [temp_art EXCEPT ![c] = "path"]
    /\ Goto(c, "test_temp_art")
    /\ Log(c, {"art_tool"})
    /\ UNCHANGED <<cfg, idx, res, rm_res, ret>>

\* Render.py:152-153
test_temp_art(c) ==
    /\ pc[c] = "test_temp_art"
    /\ Goto(c, IF temp_art[c] # "False" /\ Exists(fs, art_ext_out_path(c))
               THEN "em_test" ELSE "rmdir_final")
    /\ UNCHANGED <<fs, cfg, idx, res, temp_art, rm_res, ret, ops>>

\* Render.py:154-155 -> FileOperations.py:158-173: embed_artwork returns
\* False when the artwork is missing (its suffix is always '.jpg'), else
\* calls rm_artwork, which branches on the suffix of out_path.
embed_artwork_test(c) ==
    /\ pc[c] = "em_test"
    /\ Goto(c, IF ~Exists(fs, art_ext_out_path(c)) THEN "unlink_temp_art"
               ELSE IF IsAtomicParsleySuffix(cfg[c].out_suffix) THEN "rm_copy"
               ELSE "rm_probe")
    /\ UNCHANGED <<fs, cfg, idx, res, temp_art, rm_res, ret, ops>>

\* shutil.copy2(src, dst)
CanCopy(f, s, d) == IsFile(f, s) /\ IsDir(f, Parent(d)) /\ ~IsDir(f, d)

\* FileOperations.py:264-265, rm_artwork with AtomicParsley: the copy
rm_artwork_copy(c) ==
    /\ pc[c] = "rm_copy"
    /\ IF CanCopy(fs, out_path(c), temp_out_file(c, idx[c]))
       THEN /\ fs' = Upd(fs, temp_out_file(c, idx[c]), fs[out_path(c)])
            /\ Goto(c, "rm_ap")
       ELSE /\ Goto(c, "raised")
            /\ UNCHANGED fs
    /\ UNCHANGED <<cfg, idx, res, temp_art, rm_res, ret, ops>>

\* FileOperations.py:268-272, AtomicParsley removes the artwork in place;
\* rm_artwork returns the result of run_terminal_cmd.
rm_artwork_atomic_parsley(c) ==
    /\ pc[c] = "rm_ap"
    /\ \/ /\ IsFile(fs, temp_out_file(c, idx[c]))
          /\ fs' = Upd(fs, temp_out_file(c, idx[c]), "noart")
          /\ rm_res' = [rm_res EXCEPT ![c] = "True"]
       \/ /\ UNCHANGED fs
          /\ rm_res' = [rm_res EXCEPT ![c] = "False"]
    /\ Goto(c, "em_copy_test")
    /\ Log(c, {"rm_art_tool"})
    /\ UNCHANGED <<cfg, idx, res, temp_art, ret>>

\* FileOperations.py:277, "art_stream is None or art_stream is False and
\* self.print_err is True"
RmArtworkNoArt(art_stream, print_err) == art_stream = FALSE /\ print_err

\* FileOperations.py:275-279: the probe of out_path; embed_artwork builds
\* this FileOperations with print_err False (FileOperations.py:173).
rm_artwork_probe(c) ==
    /\ pc[c] = "rm_probe"
    /\ \E o \in StreamProbe(fs, out_path(c)) :
          \/ /\ o = "quit" /\ Goto(c, "quit") /\ UNCHANGED rm_res
          \/ /\ o = "nostream" /\ Goto(c, "raised") /\ UNCHANGED rm_res
          \/ /\ o \in {"art", "noart"}
             /\ IF RmArtworkNoArt(o = "art", FALSE)
                THEN /\ rm_res' = [rm_res EXCEPT ![c] = "False"]
                     /\ Goto(c, "em_copy_test")
                ELSE /\ Goto(c, "rm_check")
                     /\ UNCHANGED rm_res
    /\ Log(c, {"probe_out"})
    /\ UNCHANGED <<fs, cfg, idx, res, temp_art, ret>>

\* FileOperations.py:285-287 -> Render.py:44-61
rm_artwork_check(c) ==
    /\ pc[c] = "rm_check"
    /\ Goto(c, IF DependOK(fs, {out_path(c)}, {temp_out_file(c, idx[c])})
               THEN "rm_run" ELSE "quit")
    /\ UNCHANGED <<fs, cfg, idx, res, temp_art, rm_res, ret, ops>>

\* Render.py:65-112 for the command of FileOperations.py:281-283, then
\* FileOperations.py:288: rm_artwork returns True whatever the render did.
rm_artwork_run(c) ==
    /\ pc[c] = "rm_run"
    /\ \/ /\ CanWrite(fs, temp_out_file(c, idx[c]))
          /\ fs' = Upd(fs, temp_out_file(c, idx[c]), "noart")
       \/ UNCHANGED fs
    /\ rm_res' = [rm_res EXCEPT ![c] = "True"]
    /\ Goto(c, "em_copy_test")
    /\ Log(c, {"rm_art_tool"})
    /\ UNCHANGED <<cfg, idx, res, temp_art, ret>>

\* FileOperations.py:175-176
embed_artwork_copy(c) ==
    /\ pc[c] = "em_copy_test"
    /\ IF rm_res[c] = "False"
       THEN IF CanCopy(fs, out_path(c), temp_out_file(c, idx[c]))
            THEN /\ fs' = Upd(fs, temp_out_file(c, idx[c]), fs[out_path(c)])
                 /\ Goto(c, "em_rename")
            ELSE /\ Goto(c, "raised")
                 /\ UNCHANGED fs
       ELSE /\ Goto(c, "em_rename")
            /\ UNCHANGED fs
    /\ UNCHANGED <<cfg, idx, res, temp_art, rm_res, ret, ops>>

\* FileOperations.py:179-181, standard_out_path.rename(temp_rm_artwork_path),
\* then the branch on the suffix (FileOperations.py:185, 196, 219-225).
embed_artwork_rename(c) ==
    /\ pc[c] = "em_rename"
    /\ IF IsFile(fs, temp_out_file(c, idx[c])) /\ ~IsDir(fs, temp_rm_artwork_path(c, idx[c]))
       THEN /\ fs' = Move(fs, temp_out_file(c, idx[c]), temp_rm_artwork_path(c, idx[c]))
            /\ Goto(c, IF IsFfmpegArtSuffix(cfg[c].out_suffix) THEN "em_check"
                       ELSE IF IsAtomicParsleySuffix(cfg[c].out_suffix) THEN "em_ap"
                       ELSE "unlink_temp_art")
       ELSE /\ Goto(c, "raised")
            /\ UNCHANGED fs
    /\ UNCHANGED <<cfg, idx, res, temp_art, rm_res, ret, ops>>

\* FileOperations.py:191-192 -> Render.py:44-61
embed_artwork_check(c) ==
    /\ pc[c] = "em_check"
    /\ Goto(c, IF DependOK(fs, {out_path(c)}, {temp_out_file(c, idx[c])})
               THEN "em_run" ELSE "quit")
    /\ UNCHANGED <<fs, cfg, idx, res, temp_art, rm_res, ret, ops>>

\* Render.py:65-112 for the command of FileOperations.py:189-190
embed_artwork_run(c) ==
    /\ pc[c] = "em_run"
    /\ \/ /\ CanWrite(fs, temp_out_file(c, idx[c]))
          /\ IsFile(fs, temp_rm_artwork_path(c, idx[c]))
          /\ fs' = Upd(fs, temp_out_file(c, idx[c]), "embedded")
       \/ UNCHANGED fs
    /\ Goto(c, "em_unlink_rm")
    /\ Log(c, {"embed_tool"})
    /\ UNCHANGED <<cfg, idx, res, temp_art, rm_res, ret>>

\* FileOperations.py:194, temp_rm_artwork_path.unlink()
embed_artwork_unlink(c) ==
    /\ pc[c] = "em_unlink_rm"
    /\ IF IsFile(fs, temp_rm_artwork_path(c, idx[c]))
       THEN /\ fs' = Upd(fs, temp_rm_artwork_path(c, idx[c]), "none")
            /\ Goto(c, "unlink_temp_art")
       ELSE /\ Goto(c, "raised")
            /\ UNCHANGED fs
    /\ UNCHANGED <<cfg, idx, res, temp_art, rm_res, ret, ops>>

\* FileOperations.py:199-203, AtomicParsley embeds in place and may leave a
\* resized copy of the artwork next to it.
embed_artwork_atomic_parsley(c) ==
    /\ pc[c] = "em_ap"
    /\ \E resized \in BOOLEAN :
          \/ /\ IsFile(fs, temp_rm_artwork_path(c, idx[c]))
             /\ IsDir(fs, temp_directory_to_embed_metadata)
             /\ fs' = [fs EXCEPT ![temp_rm_artwork_path(c, idx[c])] = "embedded",
                                 ![resized_artwork(c)] = IF resized THEN "art" ELSE @]
          \/ /\ ~resized
             /\ UNCHANGED fs
    /\ Goto(c, "em_clean")
    /\ Log(c, {"embed_tool"})
    /\ UNCHANGED <<cfg, idx, res, temp_art, rm_res, ret>>

\* FileOperations.py:205-210, delete the resized artwork files; iterdir()
\* fails when the directory is gone.
embed_artwork_clean(c) ==
    /\ pc[c] = "em_clean"
    /\ IF IsDir(fs, temp_directory_to_embed_metadata)
       THEN /\ fs' = Upd(fs, resized_artwork(c), "none")
            /\ Goto(c, "em_rename_back")
       ELSE /\ Goto(c, "raised")
            /\ UNCHANGED fs
    /\ UNCHANGED <<cfg, idx, res, temp_art, rm_res, ret, ops>>

\* FileOperations.py:218, temp_rm_artwork_path.rename(self.standard_out_path)
embed_artwork_rename_back(c) ==
    /\ pc[c] = "em_rename_back"
    /\ IF IsFile(fs, temp_rm_artwork_path(c, idx[c])) /\ ~IsDir(fs, temp_out_file(c, idx[c]))
       THEN /\ fs' = Move(fs, temp_rm_artwork_path(c, idx[c]), temp_out_file(c, idx[c]))
            /\ Goto(c, "unlink_temp_art")
       ELSE /\ Goto(c, "raised")
            /\ UNCHANGED fs
    /\ UNCHANGED <<cfg, idx, res, temp_art, rm_res, ret, ops>>

\* Render.py:156, temp_art.unlink()
unlink_temp_art(c) ==
    /\ pc[c] = "unlink_temp_art"
    /\ IF IsFile(fs, art_ext_out_path(c))
       THEN /\ fs' = Upd(fs, art_ext_out_path(c), "none")
            /\ Goto(c, "unlink_out_art")
       ELSE /\ Goto(c, "raised")
            /\ UNCHANGED fs
    /\ UNCHANGED <<cfg, idx, res, temp_art, rm_res, ret, ops>>

\* Render.py:157, out_path.unlink()
unlink_out_path_artwork(c) ==
    /\ pc[c] = "unlink_out_art"
    /\ IF IsFile(fs, out_path(c))
       THEN /\ fs' = Upd(fs, out_path(c), "none")
            /\ Goto(c, "rename_art")
            /\ Log(c, {"unlink_out_art"})
       ELSE /\ Goto(c, "raised")
            /\ UNCHANGED <<fs, ops>>
    /\ UNCHANGED <<cfg, idx, res, temp_art, rm_res, ret>>

\* Render.py:158, temp_out_file.rename(out_path)
rename_temp_out_file_artwork(c) ==
    /\ pc[c] = "rename_art"
    /\ IF IsFile(fs, temp_out_file(c, idx[c])) /\ ~IsDir(fs, out_path(c))
       THEN /\ fs' = Move(fs, temp_out_file(c, idx[c]), out_path(c))
            /\ Goto(c, "rmdir_final")
            /\ Log(c, {"rename_out_art"})
       ELSE /\ Goto(c, "raised")
            /\ UNCHANGED <<fs, ops>>
    /\ UNCHANGED <<cfg, idx, res, temp_art, rm_res, ret>>

\* Render.py:159, temp_directory_to_embed_metadata.rmdir()
rmdir_temp_directory(c) ==
    /\ pc[c] = "rmdir_final"
    /\ IF CanRmdir(fs, temp_directory_to_embed_metadata)
       THEN /\ fs' = Upd(fs, temp_directory_to_embed_metadata, "none")
            /\ Goto(c, "return_true")
            /\ Log(c, {"rmdir"})
       ELSE /\ Goto(c, "raised")
            /\ UNCHANGED <<fs, ops>>
    /\ UNCHANGED <<cfg, idx, res, temp_art, rm_res, ret>>

\* Render.py:160, "return True" in the body of the loop over the outputs:
\* the call returns after the first output.
return_true(c) ==
    /\ pc[c] = "return_true"
    /\ Goto(c, "returned")
    /\ ret' = [ret EXCEPT ![c] = "True"]
    /\ UNCHANGED <<fs, cfg, idx, res, temp_art, rm_res, ops>>

\* -------------------------------------------------------- specification
Step(c) ==
    \/ check_depend_then_ren(c)
    \/ run_terminal_cmd(c)
    \/ test_result(c)
    \/ mkdir_temp_directory(c)
    \/ copy_over_metadata_check(c)
    \/ copy_over_metadata_run(c)
    \/ test_temp_out_file(c)
    \/ rmdir_missing(c)
    \/ unlink_out_path(c)
    \/ rename_temp_out_file(c)
    \/ test_artwork(c)
    \/ extract_artwork_suffix(c)
    \/ extract_artwork_probe(c)
    \/ extract_artwork_check(c)
    \/ extract_artwork_run(c)
    \/ test_temp_art(c)
    \/ embed_artwork_test(c)
    \/ rm_artwork_copy(c)
    \/ rm_artwork_atomic_parsley(c)
    \/ rm_artwork_probe(c)
    \/ rm_artwork_check(c)
    \/ rm_artwork_run(c)
    \/ embed_artwork_copy(c)
    \/ embed_artwork_rename(c)
    \/ embed_artwork_check(c)
    \/ embed_artwork_run(c)
    \/ embed_artwork_unlink(c)
    \/ embed_artwork_atomic_parsley(c)
    \/ embed_artwork_clean(c)
    \/ embed_artwork_rename_back(c)
    \/ unlink_temp_art(c)
    \/ unlink_out_path_artwork(c)
    \/ rename_temp_out_file_artwork(c)
    \/ rmdir_temp_directory(c)
    \/ return_true(c)

Next == (\E c \in Calls : Step(c)) /\ UNCHANGED <<fn_in, fn_out>>

Spec == Init /\ [][Next]_vars

ConcConfigs ==
    {g \in Configs : g.nOut = 1 /\ g.nIn = 1 /\ ~g.print_ren_info /\ g.in_suffix = ".mp4"}

\* Two pipeline calls made at the same time (two manual invocations), each
\* with its own existing inputs and its own outputs, not yet there, in the
\* same existing directory.
InitConc ==
    /\ cfg \in [Calls -> ConcConfigs]
    /\ pc = [c \in Calls |-> "check"]
    /\ idx = [c \in Calls |-> 1]
    /\ res = [c \in Calls |-> "none"]
    /\ temp_art = [c \in Calls |-> "none"]
    /\ rm_res = [c \in Calls |-> "none"]
    /\ ret = [c \in Calls |-> "none"]
    /\ ops = [c \in Calls |-> {}]
    /\ fn_in = NoCall
    /\ fn_out = NoResult
    /\ fs = [p \in Paths |->
              IF p = OutDir THEN "dir"
              ELSE IF p[1] = "in" /\ p[3] <= cfg[p[2]].nIn THEN "orig"
              ELSE "none"]

SpecConc == InitConc /\ [][Next]_vars

TypeOK ==
    /\ fs \in [Paths -> Entries]
    /\ cfg \in [Calls -> Configs]
    /\ \A c \in Calls : ret[c] \in {"none", "True", "False"}

\* ----------------------------------------------------------- the claims
\* Positions of the patch phase at which the call is between two steps.
MetadataStepLabels ==
    {"cm_check", "cm_run", "test_temp_out", "rmdir_missing", "unlink_out", "rename_temp_out"}
PatchPhaseLabels ==
    MetadataStepLabels \cup
    {"mkdir", "test_artwork", "ea_suffix", "ea_probe", "ea_check", "ea_run", "test_temp_art",
     "em_test", "rm_copy", "rm_ap", "rm_probe", "rm_check", "rm_run", "em_copy_test",
     "em_rename", "em_check", "em_run", "em_unlink_rm", "em_ap", "em_clean", "em_rename_back",
     "unlink_temp_art", "unlink_out_art", "rename_art", "rmdir_final", "return_true"}
PatchOps ==
    {"mkdir", "patch_check", "patch_tool", "patch_found", "patch_missing", "rmdir_missing",
     "unlink_out", "rename_out", "probe_in", "art_tool", "probe_out", "rm_art_tool",
     "embed_tool", "unlink_out_art", "rename_out_art", "rmdir"}
ScratchOf(c) ==
    {temp_out_file(c, k) : k \in 1..MaxOutputs}
    \cup {temp_rm_artwork_path(c, k) : k \in 1..MaxOutputs}
    \cup {art_ext_out_path(c), resized_artwork(c)}

\* C1: once the primary phase has succeeded and produced an output, every
\* way the call ends leaves a file at that output path.
C1_OutputSurvives ==
    \A c \in Calls : \A k \in 1..MaxOutputs :
        (Ended(c) /\ res[c] = "True" /\ Did(c, "produced", k)) => IsFile(fs, OutPath(c, k))

\* C2: every way a call that created a scratch directory can end leaves
\* neither the scratch directory nor a temporary file of the call on disk.
C2_ScratchRemoved ==
    \A c \in Calls :
        (Ended(c) /\ DidAny(c, "mkdir")) =>
            /\ ~Exists(fs, temp_directory_to_embed_metadata)
            /\ \A p \in ScratchOf(c) : ~Exists(fs, p)

\* C3: when the primary render succeeds and produces the output but the
\* patched copy never appears, the call returns normally with a success
\* result, the unpatched output is present and unmodified and the scratch
\* directory is removed, with artwork reattachment requested and without.
C3_SuccessWithoutPatch ==
    \A c \in Calls :
        (Ended(c) /\ res[c] = "True" /\ Did(c, "produced", 1) /\ Did(c, "patch_missing", 1)) =>
            /\ pc[c] = "returned"
            /\ ret[c] = "True"
            /\ fs[OutPath(c, 1)] = "primary"
            /\ ~Exists(fs, temp_directory_to_embed_metadata)

\* The precondition as the claim states it: inputs are regular files, no
\* output path exists in any form, every output's parent directory exists.
StrictDependOK(f, ins, outs) ==
    /\ \A i \in ins : IsFile(f, i)
    /\ \A o \in outs : ~Exists(f, o) /\ IsDir(f, Parent(o))

\* C4: check_depend_then_ren goes on to invoke the tool only when every
\* input is a regular file, no output path exists and every output's parent
\* exists; in every other state it terminates fatally, the filesystem
\* unchanged.
C4_ToolOnlyWhenClean ==
    [][\A c \in Calls :
          (pc[c] = "check" /\ pc'[c] # "check") =>
              IF StrictDependOK(fs, Inputs(c), Outputs(c))
              THEN pc'[c] = "run"
              ELSE pc'[c] = "quit" /\ fs' = fs]_vars

\* C5: the scratch directory is created and the patch commands run only
\* after the primary phase returned success; a call whose primary phase
\* reports failure returns False having created no scratch directory and
\* deleted or renamed no file.
C5_PatchOnlyAfterSuccess ==
    \A c \in Calls :
        /\ (pc[c] \in PatchPhaseLabels \/ \E n \in PatchOps : DidAny(c, n)) => res[c] = "True"
        /\ res[c] = "False" =>
              /\ pc[c] \in {"test_result", "returned"}
              /\ pc[c] = "returned" => ret[c] = "False"
              /\ ~Exists(fs, temp_directory_to_embed_metadata)
              /\ \A k \in 1..cfg[c].nOut : Did(c, "produced", k) => fs[OutPath(c, k)] = "primary"

C5_Witness ==
    /\ pc[1] = "returned" /\ ret[1] = "False" /\ res[1] = "False"
    /\ Did(1, "produced", 1)

\* C6: the primary phase reports success only if every declared output
\* file exists after the tool has run; a run that ends with status zero but
\* leaves an output missing does not lead into the patch phase.
C6_SuccessMeansOutputs ==
    \A c \in Calls :
        (pc[c] \in {"test_result", "mkdir"} /\ res[c] = "True") =>
            \A k \in 1..cfg[c].nOut : IsFile(fs, OutPath(c, k))

\* C7: in no intermediate state of the patch phase, metadata step or
\* artwork step, is the path of a produced output without a file.
C7_AtomicSwap ==
    \A c \in Calls :
        (pc[c] \in PatchPhaseLabels /\ Did(c, "produced", idx[c])) => IsFile(fs, out_path(c))

\* C8: when the primary phase succeeds, before the call returns every
\* declared output has had its scratch directory created, its patch
\* attempted and its scratch directory removed.
C8_EveryOutputPatched ==
    \A c \in Calls :
        (pc[c] = "returned" /\ res[c] = "True") =>
            \A k \in 1..cfg[c].nOut :
                Did(c, "mkdir", k) /\ Did(c, "patch_tool", k)
                /\ (Did(c, "rmdir", k) \/ Did(c, "rmdir_missing", k))

\* C9: the returned value distinguishes full success, success-without-patch
\* and failure: a call whose primary phase succeeded and whose patched copy
\* did not materialize returns a value that is neither the value of full
\* success nor the value of failure.
C9_TriState ==
    \A c \in Calls :
        /\ (Ended(c) /\ res[c] = "True" /\ Did(c, "patch_missing", 1)) =>
              (pc[c] = "returned" /\ ret[c] \notin {"none", "True", "False"})
        /\ (pc[c] = "returned" /\ ret[c] = "True") => Did(c, "rename_out", 1)
        /\ (pc[c] = "returned" /\ ret[c] = "False") => res[c] = "False"

\* C10: of two calls whose patch phases overlap, neither fails because of
\* the other and neither touches the other's scratch directory: creating
\* the scratch directory never fails, and from its creation to the end of
\* the metadata step the directory a call created is there.
C10_OwnScratchDirectory ==
    \A c \in Calls :
        /\ (pc[c] = "raised" /\ res[c] = "True") => DidAny(c, "mkdir")
        /\ (pc[c] \in MetadataStepLabels) => IsDir(fs, temp_directory_to_embed_metadata)

\* ======================================================================
\* MetadataAcquisition: text is a sequence of one-character strings.
\* ----------------------------------------------------------------------
MaxLines == 3

\* Python values: None, a str, or the way a call ended without a value.
NoneV == [kind |-> "None", val |-> <<>>]
StrV(s) == [kind |-> "str", val |-> s]
RaiseV(e) == [kind |-> "raise", val |-> <<e>>]

\* s[i:j] and s[i:] of Python, 0-based, clamped to the string
Slice(s, i, j) ==
    LET lo == IF i < 0 THEN 0 ELSE i
        hi == IF j > Len(s) THEN Len(s) ELSE j
    IN  IF lo >= hi THEN <<>> ELSE SubSeq(s, lo + 1, hi)
SliceFrom(s, i) == Slice(s, i, Len(s))

\* "keyword in filter_output"
StartsAt(s, w, i) == Slice(s, i, i + Len(w)) = w
KeywordIn(w, s) == \E i \in 0..(Len(s) - Len(w)) : StartsAt(s, w, i)
\* s.find(w), defined when w is in s
FindFirst(s, w) == CHOOSE i \in 0..(Len(s) - Len(w)) :
                      StartsAt(s, w, i) /\ \A j \in 0..(i - 1) : ~StartsAt(s, w, j)

\* s.split(sep) for a one-character sep: the list of the pieces
SepPositions(s, sep) == {i \in 1..Len(s) : s[i] = sep}
SplitChar(s, sep) ==
    LET P == SepPositions(s, sep)
        \* position of the k-th separator; 0 before the first piece,
        \* Len(s) + 1 after the last
        At(k) == IF k = 0 THEN 0
                 ELSE IF k > Cardinality(P) THEN Len(s) + 1
                 ELSE CHOOSE i \in P : Cardinality({j \in P : j < i}) = k - 1
    IN  [k \in 1..(Cardinality(P) + 1) |-> SubSeq(s, At(k - 1) + 1, At(k) - 1)]

\* s.rstrip(c) and s.lstrip(c) for a one-character c
RStrip(s, c) ==
    LET n == CHOOSE n \in 0..Len(s) :
                 /\ \A i \in (n + 1)..Len(s) : s[i] = c
                 /\ (n > 0 => s[n] # c)
    IN  SubSeq(s, 1, n)
LStrip(s, c) ==
    LET n == CHOOSE n \in 0..Len(s) :
                 /\ \A i \in 1..n : s[i] = c
                 /\ (n < Len(s) => s[n + 1] # c)
    IN  SubSeq(s, n + 1, Len(s))

\* '\n'.join(lines)
RECURSIVE JoinLines(_)
JoinLines(ls) ==
    IF ls = <<>> THEN <<>>
    ELSE IF Len(ls) = 1 THEN ls[1]
    ELSE ls[1] \o <<"\n">> \o JoinLines(Tail(ls))

kwStream == <<"S", "t", "r", "e", "a", "m">>
kwCrop == <<"c", "r", "o", "p">>
kwDuration == <<"D", "u", "r", "a", "t", "i", "o", "n">>
kwStart == <<"s", "t", "a", "r", "t">>
kwTitle == <<"t", "i", "t", "l", "e">>

\* MetadataAcquisition.py:416-418: the lines after the first occurrence of
\* the keyword, with ' ' appended
file_info_after_keyword_list(text, keyword) ==
    Append(SplitChar(SliceFrom(text, FindFirst(text, keyword) + Len(keyword)), "\n"),
           <<" ">>)

\* The Stream policy with its last test ending the listing instead of
\* leaving the line.
StreamCharActionStopping(line, i, isLast) ==
    IF line[i + 1] = "#" THEN "hash"
    ELSE IF Slice(line, i, i + 6) = kwStream THEN "stream"
    ELSE IF isLast THEN "finish"
    ELSE IF line[i + 1] # " " THEN "finish"
    ELSE "next"

\* MetadataAcquisition.py:432-453, the Stream policy at one character: what
\* the chain of tests does with character i of the line.
\*   "hash"   line 434-437    "stream" line 439-442    "finish" line 446-451
\*   "break"  line 452-453    "next"   no test applies, next character
StreamCharAction(line, i, isLast) ==
    IF line[i + 1] = "#" THEN "hash"
    ELSE IF Slice(line, i, i + 6) = kwStream THEN "stream"
    ELSE IF isLast THEN "finish"
    ELSE IF line[i + 1] # " " THEN "break"
    ELSE "next"

\* The value of a generic tag with the leading colon of a Duration left in
complete_keyword_value_with_colon(keyword, keyword_value) ==
    LET v0 == RStrip(keyword_value, "\n")
    IN  IF keyword = kwStart \/ keyword = kwDuration
        THEN LStrip(SplitChar(v0, ",")[1], "0") ELSE v0

\* MetadataAcquisition.py:479-490: the value of a generic tag when the
\* next tag begins
complete_keyword_value(keyword, keyword_value) ==
    LET v0 == RStrip(keyword_value, "\n")
        v1 == IF keyword = kwStart \/ keyword = kwDuration
              THEN LStrip(SplitChar(v0, ",")[1], "0") ELSE v0
        v2 == IF keyword = kwDuration /\ Slice(v1, 0, 1) = <<":">> THEN SliceFrom(v1, 1) ELSE v1
    IN  v2

\* MetadataAcquisition.py:459-463, the crop policy at one character
CropCharAction(line, i) ==
    IF Slice(line, i, i + 4) = kwCrop THEN "crop" ELSE "next"

\* MetadataAcquisition.py:467-500, the generic policy at one character
GenericCharAction(line, i) ==
    IF line[i + 1] = ":" THEN "colon"
    ELSE IF line[i + 1] # " " THEN "value_end"
    ELSE "next"

\* what the tests of MetadataAcquisition.py:432-500 do with character i
CharAction(keyword, line, i, isLast) ==
    IF keyword = kwStream THEN StreamCharAction(line, i, isLast)
    ELSE IF keyword = kwCrop THEN CropCharAction(line, i)
    ELSE GenericCharAction(line, i)

\* MetadataAcquisition.py:426-500, the two loops from line li, character ci
\* on; st holds keyword_value (kv), complete_key_value (ckv) and
\* return_metadata_value_list (out).  Characters no test applies to are
\* passed over up to the first one, i, that a test applies to.  The result
\* is the list when the loops end; clear() followed by break ends them at
\* once, a plain break goes to the next line.
RECURSIVE Scan(_, _, _, _, _)
Scan(L, keyword, li, ci, st) ==
    IF li >= Len(L) THEN st.out
    ELSE
      LET line == L[li + 1]
          isLast == li + 1 = Len(L)
          Acts == {j \in ci..(Len(line) - 1) : CharAction(keyword, line, j, isLast) # "next"}
      IN
      IF Acts = {} THEN Scan(L, keyword, li + 1, 0, st)
      ELSE
        LET i == CHOOSE j \in Acts : \A k \in Acts : j <= k
            a == CharAction(keyword, line, i, isLast)
        IN
        IF a = "hash" THEN
            Scan(L, keyword, li + 1, 0,
                 [st EXCEPT !.kv = SliceFrom(line, i + 1) \o <<"\n">>,
                            !.ckv = @ \o SliceFrom(line, i + 1) \o <<"\n">>])
        ELSE IF a = "stream" THEN
            Scan(L, keyword, li + 1, 0,
                 [st EXCEPT !.kv = SliceFrom(line, i + 8) \o <<"\n">>,
                            !.ckv = @ \o SliceFrom(line, i + 8) \o <<"\n">>])
        ELSE IF a = "finish" THEN Append(st.out, StrV(st.ckv))
        ELSE IF a = "break" THEN Scan(L, keyword, li + 1, 0, st)
        ELSE IF a = "crop" THEN Append(st.out, StrV(SliceFrom(line, i + 5)))
        ELSE IF a = "colon" THEN
            Scan(L, keyword, li + 1, 0,
                 [st EXCEPT !.kv = @ \o SliceFrom(line, i + 2) \o <<"\n">>])
        ELSE \* "value_end"
            LET v == complete_keyword_value(keyword, st.kv) IN
            IF v = <<>>
            THEN Scan(L, keyword, li, i + 1, [st EXCEPT !.out = Append(@, NoneV)])
            ELSE Append(st.out, StrV(v))

\* The containment test of MetadataAcquisition.py:406 gone wrong: only the
\* first character of the keyword is looked for.
keyword_value_exists_first_char(keyword, filter_output) ==
    KeywordIn(<<keyword[1]>>, filter_output)

\* MetadataAcquisition.py:406, keyword in filter_output
keyword_value_exists(keyword, filter_output) == KeywordIn(keyword, filter_output)

\* MetadataAcquisition.py:397-505, _find_meta_value: the value returned and
\* whether the text was scanned; return_metadata_value_list[0] is an
\* IndexError on the empty list, as is split(keyword, 1)[1] when the
\* keyword is not in the text.
find_meta_value(filter_output, keyword) ==
    IF ~keyword_value_exists(keyword, filter_output)
    THEN [value |-> NoneV, scanned |-> FALSE]
    ELSE IF ~KeywordIn(keyword, filter_output)
    THEN [value |-> RaiseV("IndexError"), scanned |-> FALSE]
    ELSE LET out == Scan(file_info_after_keyword_list(filter_output, keyword), keyword, 0, 0,
                         [kv |-> <<>>, ckv |-> <<>>, out |-> <<>>])
         IN  [value |-> IF out = <<>> THEN RaiseV("IndexError") ELSE out[1],
              scanned |-> TRUE]

\* The render pipeline at rest, while a MetadataAcquisition method is followed.
PipelineIdle ==
    /\ fs = [p \in Paths |-> "none"]
    /\ cfg = [c \in Calls |-> IdleConfig]
    /\ pc = [c \in Calls |-> "idle"]
    /\ idx = [c \in Calls |-> 1]
    /\ res = [c \in Calls |-> "none"]
    /\ temp_art = [c \in Calls |-> "none"]
    /\ rm_res = [c \in Calls |-> "none"]
    /\ ret = [c \in Calls |-> "none"]
    /\ ops = [c \in Calls |-> {}]
pipelineVars == <<fs, cfg, pc, idx, res, temp_art, rm_res, ret, ops>>

\* Lines of diagnostic text as ffprobe and ffmpeg print them, by keyword.
TagLines ==
    { <<"t", "i", "t", "l", "e", " ", ":", " ", "S", "o", "n", "g">>, <<" ", " ", ":", " ", "m", "o", "r", "e">>, <<"t", "i", "t", "l", "e", ":", "S", "o">>, <<"t", "i", "t", "l", "e", " ", ":", " ", " ">>, <<"t", "i", "t", "l", "e", " ", ":">>,
      <<"a", "r", "t", "i", "s", "t", " ", ":", " ", "x">>, <<"x">>, <<>> }
DurationLines ==
    { <<"D", "u", "r", "a", "t", "i", "o", "n", ":", " ", "0", "0", ":", "0", "1", ":", "3", "0", ".", "2", "5", ",", " ", "s", "t", "a", "r", "t", ":", " ", "0", ".", "0">>, <<"D", "u", "r", "a", "t", "i", "o", "n", ":", " ", "1", "0", ":", "0", "0", ":", "0", "0", ".", "0", "0">>,
      <<" ", " ", "D", "u", "r", "a", "t", "i", "o", "n", ":", " ", "0", "0", ":", "0", "0", ":", "0", "0", ".", "0", "0", ",", " ", "b">>, <<" ", " ", "S", "t", "r", "e", "a", "m", " ", "#", "0", ":", "0", ":", " ", "A", "u", "d", "i", "o">>, <<"a", "r", "t", "i", "s", "t", " ", ":", " ", "x">>, <<>> }
StreamLines ==
    { <<"S", "t", "r", "e", "a", "m", " ", "#", "0", ":", "0", "(", "e", "n", "g", ")", ":", " ", "V", "i", "d", "e", "o", ":", " ", "h", "2", "6", "4">>, <<" ", " ", "S", "t", "r", "e", "a", "m", " ", "#", "0", ":", "1", "(", "e", "n", "g", ")", ":", " ", "A", "u", "d", "i", "o", ":", " ", "a", "a", "c">>,
      <<" ", "#", "0", ":", "2", ":", " ", "D", "a", "t", "a", ":", " ", "b", "i", "n">>, <<" ", " ", " ", " ", "M", "e", "t", "a", "d", "a", "t", "a", ":">>, <<" ", " ", " ", " ", " ", " ", "h", "a", "n", "d", "l", "e", "r", " ", ":", " ", "x">>, <<"S", "t", "r", "e", "a", "m">>, <<>> }
CropLines ==
    { <<"[", "c", "r", "o", "p", "d", "e", "t", "e", "c", "t", "]", " ", "x", ":", "0", " ", "c", "r", "o", "p", "=", "9", "6", ":", "7", "2", ":", "1", "6", ":", "0">>, <<"[", "c", "]", " ", "c", "r", "o", "p", "=", "4", ":", "2", ":", "0", ":", "0", " ", "t">>, <<"a", " ", "c", "r", "o", "p">>,
      <<"a", "r", "t", "i", "s", "t", " ", ":", " ", "x">>, <<>> }
Keywords == {kwTitle, kwDuration, kwStream, kwCrop}
LinesFor(keyword) ==
    IF keyword = kwTitle THEN TagLines
    ELSE IF keyword = kwDuration THEN DurationLines
    ELSE IF keyword = kwStream THEN StreamLines
    ELSE CropLines \cup {<<"S", "t", "r", "e", "a", "m", " ", "#", "0", ":", "0", ":", " ", "V", "i", "d", "e", "o">>}

SeqsUpTo(S, n) == UNION {[1..m -> S] : m \in 0..n}

\* A call _find_meta_value(filter_output, keyword) on a text of up to
\* MaxLines lines.
InitFind ==
    /\ PipelineIdle
    /\ fn_out = NoResult
    /\ \E keyword \in Keywords : \E ls \in SeqsUpTo(LinesFor(keyword), MaxLines) :
          fn_in = [fn |-> "_find_meta_value", lines |-> ls,
                   filter_output |-> JoinLines(ls), keyword |-> keyword]

\* MetadataAcquisition.py:397-505
find_meta_value_call ==
    /\ fn_in.fn = "_find_meta_value"
    /\ fn_out = NoResult
    /\ fn_out' = [kind |-> "done"] @@ find_meta_value(fn_in.filter_output, fn_in.keyword)
    /\ UNCHANGED <<pipelineVars, fn_in>>

NextFind == find_meta_value_call

SpecFind == InitFind /\ [][NextFind]_vars

\* ----------------------------------------------------------------------
\* Properties of _find_meta_value
\* ----------------------------------------------------------------------
FindDone == fn_in.fn = "_find_meta_value" /\ fn_out.kind = "done"
FindPresent == FindDone /\ KeywordIn(fn_in.keyword, fn_in.filter_output)
\* the lines of the text from the first occurrence of the keyword on
AfterKeyword ==
    SplitChar(SliceFrom(fn_in.filter_output,
                        FindFirst(fn_in.filter_output, fn_in.keyword) + Len(fn_in.keyword)),
              "\n")
Trim(s) == LStrip(RStrip(s, " "), " ")

\* C14: whenever the text does not contain the keyword, whatever the
\* keyword, the call returns None, does not raise and does not scan.
C14_AbsentKeywordIsNone ==
    (FindDone /\ ~KeywordIn(fn_in.keyword, fn_in.filter_output))
        => (fn_out.value = NoneV /\ ~fn_out.scanned)
C14_Witness ==
    /\ FindDone
    /\ fn_in.keyword = kwStream
    /\ Len(fn_in.lines) = MaxLines
    /\ \A i \in 1..Len(fn_in.lines) : fn_in.lines[i] # <<>>
    /\ ~KeywordIn(fn_in.keyword, fn_in.filter_output)
    /\ fn_out.value = NoneV

\* C15: whenever the text contains the keyword the call returns a value or
\* None; it never ends in an exception.
C15_NeverRaises == FindPresent => fn_out.value.kind \in {"None", "str"}

\* C16: the call never returns the empty string, and a value that is
\* empty once trimmed is returned as None.
C16_NeverEmptyString ==
    FindPresent => ~(fn_out.value.kind = "str" /\ Trim(fn_out.value.val) = <<>>)

\* A stream line: its first character after the padding is '#' or begins
\* the word 'Stream'; its content is what follows '#', or what follows
\* 'Stream #'.
IsStreamLine(line) ==
    LET t == LStrip(line, " ") IN t # <<>> /\ (t[1] = "#" \/ StartsAt(t, kwStream, 0))
StreamLineContent(line) ==
    LET t == LStrip(line, " ") IN IF t[1] = "#" THEN SliceFrom(t, 1) ELSE SliceFrom(t, 8)
RECURSIVE EveryStreamLine(_)
EveryStreamLine(ls) ==
    IF ls = <<>> THEN <<>>
    ELSE IF IsStreamLine(ls[1])
         THEN StreamLineContent(ls[1]) \o <<"\n">> \o EveryStreamLine(Tail(ls))
         ELSE EveryStreamLine(Tail(ls))
\* the same up to the first line with text that is not a stream line
RECURSIVE LeadingStreamLines(_)
LeadingStreamLines(ls) ==
    IF ls = <<>> THEN <<>>
    ELSE IF IsStreamLine(ls[1])
         THEN StreamLineContent(ls[1]) \o <<"\n">> \o LeadingStreamLines(Tail(ls))
         ELSE IF LStrip(ls[1], " ") = <<>> THEN LeadingStreamLines(Tail(ls))
         ELSE <<>>

\* C17 as stated: the Stream listing holds the stream lines up to the
\* first line that is not a stream line, and no stream line after it.
C17_StopsAtFirstOtherLine ==
    (FindPresent /\ fn_in.keyword = kwStream)
        => fn_out.value = StrV(LeadingStreamLines(AfterKeyword))

\* C17 amended: the Stream listing holds the content of every stream line
\* from the keyword to the end of the text, in order, each ended by a
\* newline; lines that are not stream lines are skipped and end nothing.
C17_EveryStreamLineListed ==
    (FindPresent /\ fn_in.keyword = kwStream)
        => fn_out.value = StrV(EveryStreamLine(AfterKeyword))
C17_Witness ==
    /\ FindPresent
    /\ fn_in.keyword = kwStream
    /\ Len(fn_in.lines) = 3
    /\ StartsAt(fn_in.lines[1], kwStream, 0) /\ IsStreamLine(AfterKeyword[1])
    /\ fn_in.lines[2] # <<>> /\ ~IsStreamLine(fn_in.lines[2])
    /\ IsStreamLine(fn_in.lines[3])
    /\ fn_out.value = StrV(StreamLineContent(AfterKeyword[1]) \o <<"\n">>
                           \o StreamLineContent(fn_in.lines[3]) \o <<"\n">>)

\* the text of a line after its first colon
AfterColon(line) == SliceFrom(line, FindFirst(line, <<":">>) + 1)
\* the first non-space character of the line is not a colon
EndsValue(line) == LET t == LStrip(line, " ") IN t # <<>> /\ t[1] # ":"

\* C18: for a generic tag whose line is followed by the line of another
\* tag, the value is the text after the first ':' of the keyword's line,
\* trimmed, whether or not a space follows the colon (None when empty).
C18_GenericValueTrimmed ==
    (/\ FindPresent /\ fn_in.keyword = kwTitle
     /\ Len(AfterKeyword) >= 2
     /\ KeywordIn(<<":">>, AfterKeyword[1])
     /\ LStrip(AfterKeyword[1], " ")[1] = ":"
     /\ EndsValue(AfterKeyword[2]))
        => fn_out.value = IF Trim(AfterColon(AfterKeyword[1])) = <<>> THEN NoneV
                          ELSE StrV(Trim(AfterColon(AfterKeyword[1])))

\* the geometry that follows 'crop=': the characters up to the first space
UpToSpace(s) == SplitChar(s, " ")[1]

\* C19: when the first occurrence of 'crop' in the text is 'crop=W:H:X:Y',
\* the call returns exactly 'W:H:X:Y', with nothing appended.
C19_CropGeometry ==
    (/\ FindPresent /\ fn_in.keyword = kwCrop
     /\ Slice(AfterKeyword[1], 0, 1) = <<"=">>
     /\ UpToSpace(SliceFrom(AfterKeyword[1], 1)) # <<>>)
        => fn_out.value = StrV(UpToSpace(SliceFrom(AfterKeyword[1], 1)))

\* ======================================================================
\* MetadataAcquisition.return_metadata
\* ----------------------------------------------------------------------
MaxPos == 3

\* MetadataAcquisition.py:91-112, the keywords of meta_dict in the order of
\* the parameters artist_author, album, description, lyrics, genre,
\* composer, track_num, disc_num, date, start_offset, comment, title,
\* duration, performer, max_volume, first_aud_strm_info,
\* first_vid_strm_info, every_stream_info, crop_detect, vid_dim
meta_keywords ==
    << "artist", "album", "description", "lyrics", "genre", "composer", "track", "disc",
       "date", "start", "comment", "title", "Duration", "performer", "max_volume", "Audio",
       "Video", "Stream", "crop", "dimensions" >>
Fields == 1..Len(meta_keywords)

\* An argument: False, an int, or a value of another type.
ArgFalse == [kind |-> "False", pos |-> 0]
ArgInt(n) == [kind |-> "int", pos |-> n]
ArgOther == [kind |-> "other", pos |-> 0]

\* the fields whose argument varies: lyrics, composer, title, every_stream_info
VariedFields == {4, 6, 12, 18}
\* every field given its own position, and the same with one position twice
AllFieldsQuery == [f \in Fields |-> ArgInt(f)]
Queries ==
    {[f \in Fields |-> IF f \in VariedFields THEN v[f] ELSE ArgFalse] :
        v \in [VariedFields -> {ArgFalse, ArgOther} \cup {ArgInt(n) : n \in 0..MaxPos}]}
    \cup {AllFieldsQuery, [AllFieldsQuery EXCEPT ![1] = ArgInt(2)],
          [AllFieldsQuery EXCEPT ![20] = ArgFalse]}

\* MetadataAcquisition.py:120, all(in_meta_value_list): every argument is
\* truthy; False and 0 are not, a value of another type is taken to be
Truthy(a) == a.kind = "other" \/ (a.kind = "int" /\ a.pos # 0)
all_input_equal(q) == \A f \in Fields : Truthy(q[f])

\* MetadataAcquisition.py:91-112 and 140, meta_dict[meta_key_int]: the dict
\* is keyed by the arguments, so of the fields whose arguments are equal
\* (False == 0) the last one's keyword is kept
meta_dict(q, n) ==
    LET same == {f \in Fields : q[f].kind # "other" /\ q[f].pos = n}
    IN  meta_keywords[CHOOSE f \in same : \A g \in same : g <= f]

\* MetadataAcquisition.py:130-148: the fields with an int argument, and
\* out_keyword_sorted_list; '01title' sorts by the two digits first, and
\* keywords with the same digits are the same keyword
IntFields(q) == {f \in Fields : q[f].kind = "int"}
RECURSIVE KeywordsFrom(_, _)
KeywordsFrom(q, n) ==
    IF n > Len(meta_keywords) THEN <<>>
    ELSE [k \in 1..Cardinality({f \in IntFields(q) : q[f].pos = n}) |-> meta_dict(q, n)]
         \o KeywordsFrom(q, n + 1)
out_keyword_sorted_list(q) == KeywordsFrom(q, 0)

\* MetadataAcquisition.py:150-162, an output order int given twice
HasDuplicate(q) == \E f, g \in IntFields(q) : f # g /\ q[f].pos = q[g].pos
\* The range test with its upper limit left out
OutOfRangeLowOnly(q) == \E f \in IntFields(q) : q[f].pos < 1

\* MetadataAcquisition.py:164-168
OutOfRange(q) ==
    \E f \in IntFields(q) : q[f].pos < 1 \/ q[f].pos > Cardinality(IntFields(q))

\* What a tool run and the extraction from its text give for a keyword:
\* a value, None, or the IndexError of _find_meta_value (ffprobe's
\* format_tags answer is used as it is, MetadataAcquisition.py:207-216).
UsesFindMetaValue(keyword) == keyword \in {"max_volume", "crop", "Stream", "Duration"}
Outcomes(keyword) ==
    IF UsesFindMetaValue(keyword) THEN {"value", "None", "raise"} ELSE {"value", "None"}
Extractions ==
    {e \in [VariedFields -> {"value", "None", "raise"}] :
        \A f \in VariedFields : e[f] \in Outcomes(meta_keywords[f])}
FieldOf(keyword) == CHOOSE f \in Fields : meta_keywords[f] = keyword
OutcomeOf(e, keyword) == IF FieldOf(keyword) \in VariedFields THEN e[FieldOf(keyword)] ELSE "value"
ValueOf(e, keyword) ==
    IF OutcomeOf(e, keyword) = "value" THEN StrV(<<keyword>>) ELSE NoneV

QueryResult(end, list, checked, tools, reported) ==
    [kind |-> "done", end |-> end, list |-> list, file_checked |-> checked,
     tools |-> tools, reported_empty |-> reported]

\* MetadataAcquisition.py:191-228: the loop over out_keyword_sorted_list;
\* the append of line 227 comes after the loop, so the list holds the last
\* current_key_value, which has no value when the loop ran zero times.
ExtractAll(q, e, reported) ==
    LET ks == out_keyword_sorted_list(q)
        raising == {i \in 1..Len(ks) : OutcomeOf(e, ks[i]) = "raise"}
    IN  IF raising # {}
        THEN LET i == CHOOSE j \in raising : \A k \in raising : j <= k
             IN  QueryResult("raise", <<>>, TRUE, SubSeq(ks, 1, i), reported)
        ELSE IF ks = <<>>
        THEN QueryResult("raise", <<>>, TRUE, <<>>, reported)
        ELSE QueryResult("return", <<ValueOf(e, ks[Len(ks)])>>, TRUE, ks, reported)

\* MetadataAcquisition.py:80-228, return_metadata on the query q for an
\* input path that is missing ("none"), a file or a directory, the tools
\* behaving as in e
return_metadata(q, in_path, e) ==
    LET reported == all_input_equal(q) IN
    IF \E f \in Fields : q[f].kind = "other"
    THEN QueryResult("quit", <<>>, FALSE, <<>>, reported)
    ELSE IF HasDuplicate(q) THEN QueryResult("quit", <<>>, FALSE, <<>>, reported)
    ELSE IF OutOfRange(q) THEN QueryResult("quit", <<>>, FALSE, <<>>, reported)
    ELSE IF in_path # "file" THEN QueryResult("quit", <<>>, TRUE, <<>>, reported)
    ELSE ExtractAll(q, e, reported)

InitQuery ==
    /\ PipelineIdle
    /\ fn_out = NoResult
    /\ \E q \in Queries : \E p \in {"none", "file", "dir"} :
          fn_in = [fn |-> "return_metadata", query |-> q, in_path |-> p]

\* MetadataAcquisition.py:80-228
return_metadata_call ==
    /\ fn_in.fn = "return_metadata"
    /\ fn_out = NoResult
    /\ \E e \in Extractions :
          fn_out' = [return_metadata(fn_in.query, fn_in.in_path, e) EXCEPT !.kind = "done"]
              @@ [extraction |-> e]
    /\ UNCHANGED <<pipelineVars, fn_in>>

NextQuery == return_metadata_call

SpecQuery == InitQuery /\ [][NextQuery]_vars

\* ----------------------------------------------------------------------
\* Properties of return_metadata
\* ----------------------------------------------------------------------
QueryDone == fn_in.fn = "return_metadata" /\ fn_out.kind = "done"
\* the fields that are requested, and their number N
Requested == IntFields(fn_in.query)
\* the requested fields have the distinct positions 1..N
PositionsValid ==
    /\ \A f \in Fields : fn_in.query[f].kind # "other"
    /\ \A f, g \in Requested : f # g => fn_in.query[f].pos # fn_in.query[g].pos
    /\ \A f \in Requested : fn_in.query[f].pos \in 1..Cardinality(Requested)
FieldAt(k) == CHOOSE f \in Requested : fn_in.query[f].pos = k

\* C11: a query of N >= 1 fields at the positions 1..N that returns,
\* returns N values, the k-th being the value of the field at position k.
C11_OneValuePerField ==
    (QueryDone /\ PositionsValid /\ Requested # {} /\ fn_out.end = "return")
        => /\ Len(fn_out.list) = Cardinality(Requested)
           /\ \A k \in 1..Cardinality(Requested) :
                 fn_out.list[k] = ValueOf(fn_out.extraction, meta_keywords[FieldAt(k)])

PositionTwice == \E f, g \in Requested : f # g /\ fn_in.query[f].pos = fn_in.query[g].pos
PositionOutside == \E f \in Requested : fn_in.query[f].pos \notin 1..Cardinality(Requested)

\* C12: a query with a position given twice or a position outside 1..N
\* ends fatally, with the input file not checked, no tool run and no list.
C12_BadPositionsFailFirst ==
    (QueryDone /\ (PositionTwice \/ PositionOutside))
        => /\ fn_out.end = "quit"
           /\ ~fn_out.file_checked
           /\ fn_out.tools = <<>>
           /\ fn_out.list = <<>>
C12_Witness ==
    /\ QueryDone
    /\ fn_in.in_path = "file"
    /\ \A f \in Fields : fn_in.query[f].kind # "other"
    /\ Cardinality(Requested) = 2
    /\ \E f \in Requested : fn_in.query[f].pos = 1
    /\ \E f \in Requested : fn_in.query[f].pos = 3
    /\ fn_out.end = "quit" /\ ~fn_out.file_checked

\* C13: the empty-query error is reported exactly when no field is
\* requested, and such a query ends fatally before the file check and
\* before any tool.
C13_EmptyQueryReported ==
    QueryDone
        => /\ fn_out.reported_empty <=> (Requested = {})
           /\ (Requested = {}) => (fn_out.end = "quit" /\ ~fn_out.file_checked /\ fn_out.tools = <<>>)

\* ======================================================================
\* MetadataAcquisition.return_stream_types
\* ----------------------------------------------------------------------
\* str.splitlines() of a text whose only line ends are '\n'
splitlines(s) ==
    LET ps == SplitChar(s, "\n")
    IN  IF ps[Len(ps)] = <<>> THEN SubSeq(ps, 1, Len(ps) - 1) ELSE ps

\* The tests of MetadataAcquisition.py:240-254 with the Audio test left out
MarkerAtNoAudio(strm, i) ==
    IF Slice(strm, i, i + 5) = <<"V", "i", "d", "e", "o">> THEN "Video"
    ELSE IF Slice(strm, i, i + 4) = <<"D", "a", "t", "a">> THEN "Data"
    ELSE IF Slice(strm, i, i + 8) = <<"S", "u", "b", "t", "i", "t", "l", "e">> THEN "Subtitle"
    ELSE "pass"

\* MetadataAcquisition.py:240-260, the test that applies at index i of strm
MarkerAt(strm, i) ==
    IF Slice(strm, i, i + 5) = <<"V", "i", "d", "e", "o">> THEN "Video"
    ELSE IF Slice(strm, i, i + 5) = <<"A", "u", "d", "i", "o">> THEN "Audio"
    ELSE IF Slice(strm, i, i + 4) = <<"D", "a", "t", "a">> THEN "Data"
    ELSE IF Slice(strm, i, i + 8) = <<"S", "u", "b", "t", "i", "t", "l", "e">> THEN "Subtitle"
    ELSE "pass"

\* The Subtitle descriptor with the language code cut after two characters
SubtitleDescriptorShort(strm) ==
    IF KeywordIn(<<"(">>, strm)
    THEN LET k == FindFirst(strm, <<"(">>) IN <<<<"S", "u", "b", "t", "i", "t", "l", "e", "=">> \o Slice(strm, k + 1, k + 3)>>
    ELSE <<>>

\* MetadataAcquisition.py:255-258: the descriptor of a subtitle line, from
\* the first '(' of the line; none when the line has no '('
SubtitleDescriptor(strm) ==
    IF KeywordIn(<<"(">>, strm)
    THEN LET k == FindFirst(strm, <<"(">>) IN <<<<"S", "u", "b", "t", "i", "t", "l", "e", "=">> \o Slice(strm, k + 1, k + 4)>>
    ELSE <<>>

\* The attached-picture test never succeeding
is_attached_pic_never(strm) == FALSE

\* MetadataAcquisition.py:241, strm[-14:] == '(attached pic)'
is_attached_pic(strm) == Slice(strm, Len(strm) - 14, Len(strm)) = <<"(", "a", "t", "t", "a", "c", "h", "e", "d", " ", "p", "i", "c", ")">>

\* MetadataAcquisition.py:239-260, the loop over the indexes of one line
\* from index i on: what it appends to strm_types_list.  Every test but
\* the Subtitle one leaves the loop.
RECURSIVE StreamTypesFrom(_, _)
StreamTypesFrom(strm, i) ==
    LET Hits == {j \in i..(Len(strm) - 1) : MarkerAt(strm, j) # "pass"} IN
    IF Hits = {} THEN <<>>
    ELSE LET j == CHOOSE h \in Hits : \A k \in Hits : h <= k
             m == MarkerAt(strm, j)
         IN  IF m = "Video"
             THEN IF is_attached_pic(strm)
                  THEN <<<<"A", "r", "t", "w", "o", "r", "k">>>> ELSE <<<<"V", "i", "d", "e", "o">>>>
             ELSE IF m = "Audio" THEN <<<<"A", "u", "d", "i", "o">>>>
             ELSE IF m = "Data" THEN <<<<"C", "h", "a", "p", "t", "e", "r">>>>
             ELSE SubtitleDescriptor(strm) \o StreamTypesFrom(strm, j + 1)

\* MetadataAcquisition.py:238-261, the loop over the lines
RECURSIVE strm_types_list(_)
strm_types_list(strm_types) ==
    IF strm_types = <<>> THEN <<>>
    ELSE StreamTypesFrom(strm_types[1], 0) \o strm_types_list(Tail(strm_types))

\* MetadataAcquisition.py:230-261, return_stream_types on an input path
\* for which ffprobe prints file_info: return_metadata(every_stream_info=1)
\* checks the file and extracts the Stream listing, which is None when the
\* text has no 'Stream'
return_stream_types(in_path, file_info) ==
    IF in_path # "file" THEN [end |-> "quit", list |-> <<>>]
    ELSE LET v == find_meta_value(file_info, kwStream).value IN
         IF v.kind = "raise" THEN [end |-> "raise", list |-> <<>>]
         ELSE IF v.kind = "None" THEN [end |-> "raise", list |-> <<>>]
         ELSE [end |-> "return", list |-> strm_types_list(splitlines(v.val))]

\* Lines of an ffprobe report.
ProbeLines ==
    { <<"S", "t", "r", "e", "a", "m", " ", "#", "0", ":", "0", "(", "e", "n", "g", ")", ":", " ", "V", "i", "d", "e", "o", ":", " ", "h", "2", "6", "4">>, <<" ", " ", "S", "t", "r", "e", "a", "m", " ", "#", "0", ":", "1", "(", "e", "n", "g", ")", ":", " ", "A", "u", "d", "i", "o", ":", " ", "a", "a", "c">>,
      <<"S", "t", "r", "e", "a", "m", " ", "#", "0", ":", "2", ":", " ", "V", "i", "d", "e", "o", ":", " ", "p", "n", "g", " ", "(", "a", "t", "t", "a", "c", "h", "e", "d", " ", "p", "i", "c", ")">>, <<"S", "t", "r", "e", "a", "m", " ", "#", "0", ":", "3", "(", "e", "n", "g", ")", ":", " ", "S", "u", "b", "t", "i", "t", "l", "e", ":", " ", "m", "o", "v", "_", "t", "e", "x", "t">>,
      <<"S", "t", "r", "e", "a", "m", " ", "#", "0", ":", "4", ":", " ", "D", "a", "t", "a", ":", " ", "b", "i", "n", "_", "d", "a", "t", "a">>, <<"S", "t", "r", "e", "a", "m", " ", "#", "0", ":", "5", ":", " ", "A", "u", "d", "i", "o", ":", " ", "a", "a", "c", " ", "(", "V", "i", "d", "e", "o", ")">>,
      <<"S", "t", "r", "e", "a", "m", " ", "#", "0", ":", "6", ":", " ", "A", "t", "t", "a", "c", "h", "m", "e", "n", "t", ":", " ", "t", "t", "f">>, <<"S", "t", "r", "e", "a", "m", " ", "#", "0", ":", "7", ":", " ", "S", "u", "b", "t", "i", "t", "l", "e", ":", " ", "m", "o", "v", "_", "t", "e", "x", "t">>,
      <<"S", "t", "r", "e", "a", "m", " ", "#", "0", ":", "8", "(", "f", "r", "e", ")", ":", " ", "S", "u", "b", "t", "i", "t", "l", "e", ":", " ", "a", "s", "s", " ", "(", "A", "u", "d", "i", "o", ")">>,
      <<" ", " ", " ", " ", "M", "e", "t", "a", "d", "a", "t", "a", ":">>, <<" ", " ", " ", " ", " ", " ", "h", "a", "n", "d", "l", "e", "r", "_", "n", "a", "m", "e", " ", ":", " ", "V", "i", "d", "e", "o", "H", "a", "n", "d", "l", "e", "r">>, <<"I", "n", "p", "u", "t", " ", "#", "0", ",", " ", "m", "o", "v">> }

InitStreams ==
    /\ PipelineIdle
    /\ fn_out = NoResult
    /\ \E ls \in SeqsUpTo(ProbeLines, MaxLines) : \E p \in {"none", "file"} :
          fn_in = [fn |-> "return_stream_types", lines |-> ls,
                   filter_output |-> JoinLines(ls), keyword |-> kwStream, in_path |-> p]

\* MetadataAcquisition.py:230-261
return_stream_types_call ==
    /\ fn_in.fn = "return_stream_types"
    /\ fn_out = NoResult
    /\ fn_out' = [kind |-> "done"] @@ return_stream_types(fn_in.in_path, fn_in.filter_output)
    /\ UNCHANGED <<pipelineVars, fn_in>>

NextStreams == return_stream_types_call

SpecStreams == InitStreams /\ [][NextStreams]_vars

\* ----------------------------------------------------------------------
\* Properties of return_stream_types
\* ----------------------------------------------------------------------
StreamsDone == fn_in.fn = "return_stream_types" /\ fn_out.kind = "done"
\* the stream lines of the report, from the first 'Stream' on
StreamLinesOf(ls) == SelectSeq(ls, IsStreamLine)
\* the kind a stream line reports: the word between the stream's index and
\* the codec, as in 'Stream #0:0(eng): Video: h264'
KindWord(line) ==
    LET ps == SplitChar(line, ":") IN IF Len(ps) >= 3 THEN Trim(ps[3]) ELSE <<>>
IsPlainVideoOrAudio(line) ==
    \/ KindWord(line) = <<"A", "u", "d", "i", "o">>
    \/ KindWord(line) = <<"V", "i", "d", "e", "o">> /\ Slice(line, Len(line) - 14, Len(line)) # <<"(", "a", "t", "t", "a", "c", "h", "e", "d", " ", "p", "i", "c", ")">>
RECURSIVE KindWords(_)
KindWords(ls) == IF ls = <<>> THEN <<>> ELSE <<KindWord(ls[1])>> \o KindWords(Tail(ls))

\* C20: when every stream line of the report is a Video line or an Audio
\* line, the descriptors returned are the kinds of the stream lines, one
\* per stream line, in the order of the report.
C20_OneDescriptorPerStream ==
    (/\ StreamsDone /\ fn_in.in_path = "file"
     /\ KeywordIn(kwStream, fn_in.filter_output)
     /\ \A i \in 1..Len(StreamLinesOf(AfterKeyword)) :
           IsPlainVideoOrAudio(StreamLinesOf(AfterKeyword)[i]))
        => /\ fn_out.end = "return"
           /\ fn_out.list = KindWords(StreamLinesOf(AfterKeyword))
C20_Witness ==
    /\ StreamsDone /\ fn_in.in_path = "file"
    /\ Len(fn_in.lines) = 3
    /\ fn_in.lines[1] = <<"S", "t", "r", "e", "a", "m", " ", "#", "0", ":", "0", "(", "e", "n", "g", ")", ":", " ", "V", "i", "d", "e", "o", ":", " ", "h", "2", "6", "4">>
    /\ fn_in.lines[2] = <<" ", " ", " ", " ", " ", " ", "h", "a", "n", "d", "l", "e", "r", "_", "n", "a", "m", "e", " ", ":", " ", "V", "i", "d", "e", "o", "H", "a", "n", "d", "l", "e", "r">>
    /\ fn_in.lines[3] = <<" ", " ", "S", "t", "r", "e", "a", "m", " ", "#", "0", ":", "1", "(", "e", "n", "g", ")", ":", " ", "A", "u", "d", "i", "o", ":", " ", "a", "a", "c">>
    /\ fn_out.end = "return"
    /\ fn_out.list = <<<<"V", "i", "d", "e", "o">>, <<"A", "u", "d", "i", "o">>>>

StreamsReturned == StreamsDone /\ fn_out.end = "return"
\* the stream lines of the report as they stand in the Stream listing
ListingLines == StreamLinesOf(AfterKeyword)
EndsAttachedPic(line) == Slice(line, Len(line) - 14, Len(line)) = <<"(", "a", "t", "t", "a", "c", "h", "e", "d", " ", "p", "i", "c", ")">>
RECURSIVE VideoOrArtwork(_)
VideoOrArtwork(ls) ==
    IF ls = <<>> THEN <<>>
    ELSE <<IF EndsAttachedPic(ls[1]) THEN <<"A", "r", "t", "w", "o", "r", "k">> ELSE <<"V", "i", "d", "e", "o">>>> \o VideoOrArtwork(Tail(ls))

\* C21: when the stream lines are Video lines, each one that ends with
\* '(attached pic)' is classified Artwork and each other one Video; a
\* Video line followed by an attached-picture line gives [Video, Artwork].
C21_AttachedPicIsArtwork ==
    (/\ StreamsDone /\ fn_in.in_path = "file"
     /\ KeywordIn(kwStream, fn_in.filter_output)
     /\ \A i \in 1..Len(ListingLines) : KindWord(ListingLines[i]) = <<"V", "i", "d", "e", "o">>)
        => /\ fn_out.end = "return"
           /\ fn_out.list = VideoOrArtwork(ListingLines)
C21_Witness ==
    /\ StreamsReturned
    /\ fn_in.lines = <<<<"S", "t", "r", "e", "a", "m", " ", "#", "0", ":", "0", "(", "e", "n", "g", ")", ":", " ", "V", "i", "d", "e", "o", ":", " ", "h", "2", "6", "4">>, <<"S", "t", "r", "e", "a", "m", " ", "#", "0", ":", "2", ":", " ", "V", "i", "d", "e", "o", ":", " ", "p", "n", "g", " ", "(", "a", "t", "t", "a", "c", "h", "e", "d", " ", "p", "i", "c", ")">>>>
    /\ fn_out.list = <<<<"V", "i", "d", "e", "o">>, <<"A", "r", "t", "w", "o", "r", "k">>>>

\* the text of the first parenthesis group of a line
FirstGroup(line) ==
    SplitChar(SliceFrom(line, FindFirst(line, <<"(">>) + 1), ")")[1]
HasCode(line) ==
    /\ KeywordIn(<<"(">>, line)
    /\ KeywordIn(<<")">>, SliceFrom(line, FindFirst(line, <<"(">>) + 1))
    /\ Len(FirstGroup(line)) = 3
IsSubtitleLine(line) == KindWord(line) = <<"S", "u", "b", "t", "i", "t", "l", "e">>
IsSubtitleDescriptor(d) == Slice(d, 0, 9) = <<"S", "u", "b", "t", "i", "t", "l", "e", "=">>
RECURSIVE SubtitleCodes(_)
SubtitleCodes(ls) ==
    IF ls = <<>> THEN <<>>
    ELSE (IF IsSubtitleLine(ls[1]) THEN <<<<"S", "u", "b", "t", "i", "t", "l", "e", "=">> \o FirstGroup(ls[1])>> ELSE <<>>)
         \o SubtitleCodes(Tail(ls))

\* C22: when every Subtitle line of the listing has a 3-letter code in its
\* first parenthesis group, the Subtitle descriptors returned carry
\* exactly these codes, one per Subtitle line, in order.
C22_SubtitleCarriesCode ==
    (/\ StreamsReturned
     /\ \A i \in 1..Len(ListingLines) : IsSubtitleLine(ListingLines[i]) => HasCode(ListingLines[i]))
        => SelectSeq(fn_out.list, IsSubtitleDescriptor) = SubtitleCodes(ListingLines)
C22_Witness ==
    /\ StreamsReturned
    /\ Len(fn_in.lines) = 2
    /\ fn_in.lines[1] = <<"S", "t", "r", "e", "a", "m", " ", "#", "0", ":", "0", "(", "e", "n", "g", ")", ":", " ", "V", "i", "d", "e", "o", ":", " ", "h", "2", "6", "4">>
    /\ fn_in.lines[2] = <<"S", "t", "r", "e", "a", "m", " ", "#", "0", ":", "3", "(", "e", "n", "g", ")", ":", " ", "S", "u", "b", "t", "i", "t", "l", "e", ":", " ", "m", "o", "v", "_", "t", "e", "x", "t">>
    /\ fn_out.list = <<<<"V", "i", "d", "e", "o">>, <<"S", "u", "b", "t", "i", "t", "l", "e", "=", "e", "n", "g">>>>

\* the descriptor d describes a stream line of the kind w
Describes(d, w) ==
    \/ w = <<"V", "i", "d", "e", "o">> /\ d \in {<<"V", "i", "d", "e", "o">>, <<"A", "r", "t", "w", "o", "r", "k">>}
    \/ w = <<"A", "u", "d", "i", "o">> /\ d = <<"A", "u", "d", "i", "o">>
    \/ w = <<"D", "a", "t", "a">> /\ d = <<"C", "h", "a", "p", "t", "e", "r">>
    \/ w = <<"S", "u", "b", "t", "i", "t", "l", "e">> /\ IsSubtitleDescriptor(d)

\* C26: the k-th descriptor returned describes the k-th stream line of
\* the listing, whatever the kinds of the lines.
C26_PositionIsStreamIndex ==
    StreamsReturned
        => \A k \in 1..Len(fn_out.list) :
              /\ k <= Len(ListingLines)
              /\ Describes(fn_out.list[k], KindWord(ListingLines[k]))

\* C27: the list returned is never longer than the listing has lines.
C27_AtMostOnePerLine ==
    StreamsReturned => Len(fn_out.list) <= Len(ListingLines)

\* ======================================================================
\* FileOperations._return_input_duration_in_sec
\* ----------------------------------------------------------------------
DigitChars == <<"0", "1", "2", "3", "4", "5", "6", "7", "8", "9">>
IsDigit(c) == \E d \in 1..10 : DigitChars[d] = c
DigitVal(c) == (CHOOSE d \in 1..10 : DigitChars[d] = c) - 1
AllDigits(s) == s # <<>> /\ \A i \in 1..Len(s) : IsDigit(s[i])
\* int(s) for a string of digits
RECURSIVE IntOf(_)
IntOf(s) == IF s = <<>> THEN 0 ELSE IntOf(SubSeq(s, 1, Len(s) - 1)) * 10 + DigitVal(s[Len(s)])
\* str(n) for a natural number
RECURSIVE StrOf(_)
StrOf(n) == IF n < 10 THEN <<DigitChars[n + 1]>> ELSE StrOf(n \div 10) \o <<DigitChars[(n % 10) + 1]>>
RECURSIVE Pow10(_)
Pow10(k) == IF k = 0 THEN 1 ELSE 10 * Pow10(k - 1)

\* A number field of strptime (%H, %M, %S): one or two digits with a value
\* up to max; -1 when the text is no such field.  %S takes 60 and 61 but
\* the time they would make is refused with the same ValueError.
strptime_field(s, max) ==
    IF AllDigits(s) /\ Len(s) <= 2 /\ IntOf(s) <= max THEN IntOf(s) ELSE -1
\* %f: one to six digits, read as a fraction of a second in microseconds
strptime_f(s) ==
    IF AllDigits(s) /\ Len(s) <= 6 THEN IntOf(s) * Pow10(6 - Len(s)) ELSE -1

NoTime == [ok |-> FALSE, hour |-> 0, minute |-> 0, second |-> 0, microsecond |-> 0]
\* FileOperations.py:1579, datetime.strptime(duration, timecode_format).time():
\* the fields between the ':' and after the '.', as the format has them;
\* not ok stands for ValueError
strptime(duration, timecode_format) ==
    LET dotted == timecode_format \in {"%H:%M:%S.%f", "%M:%S.%f", "%S.%f"}
        n == IF timecode_format \in {"%H:%M:%S.%f", "%H:%M:%S"} THEN 3
             ELSE IF timecode_format \in {"%M:%S.%f", "%M:%S"} THEN 2 ELSE 1
        dot == IF KeywordIn(<<".">>, duration) THEN FindFirst(duration, <<".">>) ELSE Len(duration)
        parts == SplitChar(Slice(duration, 0, dot), ":")
        us == IF dotted THEN strptime_f(SliceFrom(duration, dot + 1)) ELSE 0
        hour == IF n = 3 THEN strptime_field(parts[1], 23) ELSE 0
        minute == IF n >= 2 THEN strptime_field(parts[Len(parts) - 1], 59) ELSE 0
        second == strptime_field(parts[Len(parts)], 59)
    IN  IF /\ dotted = KeywordIn(<<".">>, duration)
           /\ Len(parts) = n
           /\ us >= 0 /\ hour >= 0 /\ minute >= 0 /\ second >= 0
        THEN [ok |-> TRUE, hour |-> hour, minute |-> minute, second |-> second, microsecond |-> us]
        ELSE NoTime

\* FileOperations.py:1560-1578, the format chosen from the length and the
\* '.'; "" stands for the raise ValueError of lines 1569 and 1578
timecode_format_of(duration) ==
    IF ~KeywordIn(<<".">>, duration) THEN
        IF Len(duration) > 6 THEN "%H:%M:%S"
        ELSE IF Len(duration) > 3 THEN "%M:%S"
        ELSE IF Len(duration) = 2 \/ Len(duration) = 1 THEN "%S"
        ELSE ""
    ELSE
        IF Len(duration) > 9 THEN "%H:%M:%S.%f"
        ELSE IF Len(duration) > 5 THEN "%M:%S.%f"
        ELSE IF Len(duration) > 3 THEN "%S.%f"
        ELSE ""

\* The fraction written after '.' with no zero ever put in front
fraction_text_plain(microsecond) == StrOf(microsecond)

\* FileOperations.py:1593-1596, what is written after the '.' of length_sec
fraction_text(microsecond) ==
    IF Len(StrOf(microsecond)) = 6 THEN StrOf(microsecond)
    ELSE <<"0">> \o StrOf(microsecond)

\* FileOperations.py:1588-1599: float(length_sec), held as the whole
\* seconds before the '.' and the digits after it read in microseconds
\* (they are six at most)
length_sec(length) ==
    [sec |-> length.hour * 3600 + length.minute * 60 + length.second,
     micro |-> IntOf(fraction_text(length.microsecond))
               * Pow10(6 - Len(fraction_text(length.microsecond)))]

NoSeconds == [sec |-> 0, micro |-> 0]
DurationResult(end, format, seconds) == [end |-> end, format |-> format, seconds |-> seconds]

\* FileOperations.py:1552-1599, from the duration string on; v is the
\* string given or the value extracted from the file (None or a str)
duration_in_sec(v) ==
    IF v.kind = "None" \/ v.val = <<"N", "/", "A">> THEN DurationResult("None", "", NoSeconds)
    ELSE LET f == timecode_format_of(v.val)
             t == IF f = "" THEN NoTime ELSE strptime(v.val, f)
         IN  IF ~t.ok THEN DurationResult("quit", f, NoSeconds)
             ELSE DurationResult("return", f, length_sec(t))

\* FileOperations.py:1539-1599, _return_input_duration_in_sec: with an
\* empty convert_str_timecode_to_sec the duration comes from
\* return_metadata(duration=1)[0], which checks the file and extracts
\* 'Duration' from what ffmpeg prints
return_input_duration_in_sec(convert_str, in_path, file_info) ==
    IF convert_str # <<>> THEN duration_in_sec(StrV(convert_str))
    ELSE IF in_path # "file" THEN DurationResult("quit", "", NoSeconds)
    ELSE LET v == find_meta_value(file_info, kwDuration).value IN
         IF v.kind = "raise" THEN DurationResult("raise", "", NoSeconds)
         ELSE duration_in_sec(v)

\* Timecode strings: hours, minutes, seconds and a fraction, any of the
\* first two and the last left out (<<>>)
HourTexts == {<<>>, <<"1">>, <<"0", "0">>, <<"2", "3">>, <<"2", "4">>}
MinuteTexts == {<<>>, <<"0">>, <<"5">>, <<"0", "0">>, <<"0", "1">>, <<"5", "9">>, <<"6", "0">>}
SecondTexts == {<<"0">>, <<"5">>, <<"0", "0">>, <<"3", "0">>, <<"5", "9">>, <<"6", "0">>, <<"1", "2", "3">>}
FractionTexts ==
    {<<>>, <<"0">>, <<"5">>, <<"0", "0">>, <<"0", "5">>, <<"2", "5">>, <<"9", "9">>, <<"0", "0", "5">>, <<"1", "2", "3">>, <<"1", "2", "3", "4", "5", "6", "7">>}
TimecodeOf(h, m, s, f) ==
    (IF h # <<>> THEN h \o <<":">> ELSE <<>>) \o (IF m # <<>> THEN m \o <<":">> ELSE <<>>)
    \o s \o (IF f # <<>> THEN <<".">> \o f ELSE <<>>)
OtherTimecodes == {<<"N", "/", "A">>, <<"a", "b", "c">>, <<"1", ".", "2", ".", "5">>, <<"5", ".">>, <<":", "3", "0">>}

\* What ffmpeg prints for a file: a Duration line and the lines after it
TwoDigitTexts == {<<"0", "0">>, <<"0", "1">>, <<"3", "0">>, <<"5", "9">>}
DurationLine(hh, mm, ss, ff) ==
    <<" ", " ", "D", "u", "r", "a", "t", "i", "o", "n", ":", " ">> \o hh \o <<":">> \o mm \o <<":">> \o ss \o <<".">> \o ff
    \o <<",", " ", "s", "t", "a", "r", "t", ":", " ", "0", ".", "0", ",", " ", "b", "i", "t", "r", "a", "t", "e", ":", " ", "1", "2", "8", " ", "k", "b", "/", "s">>
FollowingLines == {<<" ", " ", " ", " ", "S", "t", "r", "e", "a", "m", " ", "#", "0", ":", "0", ":", " ", "A", "u", "d", "i", "o", ":", " ", "a", "a", "c">>, <<"A", "t", " ", "l", "e", "a", "s", "t", " ", "o", "n", "e", " ", "o", "u", "t", "p", "u", "t", " ", "f", "i", "l", "e">>}
OtherReports ==
    { <<<<"I", "n", "p", "u", "t", " ", "#", "0", ",", " ", "m", "o", "v">>>>, <<<<" ", " ", "D", "u", "r", "a", "t", "i", "o", "n", ":", " ", "N", "/", "A", ",", " ", "b", "i", "t", "r", "a", "t", "e", ":", " ", "N", "/", "A">>, <<" ", " ", " ", " ", "S", "t", "r", "e", "a", "m", " ", "#", "0", ":", "0", ":", " ", "V", "i", "d", "e", "o">>>>,
      <<DurationLine(<<"0", "0">>, <<"0", "1">>, <<"3", "0">>, <<"2", "5">>)>> }

TimecodeCall(h, m, s, f, convert_str, in_path, ls) ==
    [fn |-> "_return_input_duration_in_sec", h |-> h, m |-> m, s |-> s, f |-> f,
     convert_str |-> convert_str, in_path |-> in_path, lines |-> ls,
     filter_output |-> JoinLines(ls), keyword |-> kwDuration]

InitTimecode ==
    /\ PipelineIdle
    /\ fn_out = NoResult
    /\ \/ \E h \in HourTexts, m \in MinuteTexts, s \in SecondTexts, f \in FractionTexts :
             /\ h # <<>> => m # <<>>
             /\ fn_in = TimecodeCall(h, m, s, f, TimecodeOf(h, m, s, f), "file", <<>>)
       \/ \E o \in OtherTimecodes :
             fn_in = TimecodeCall(<<>>, <<>>, <<>>, <<>>, o, "file", <<>>)
       \/ \E hh \in TwoDigitTexts \cup {<<"1", "0">>, <<"2", "3">>}, mm \in TwoDigitTexts, ss \in TwoDigitTexts,
             ff \in TwoDigitTexts \cup {<<"0", "5">>, <<"2", "5">>}, l \in FollowingLines, p \in {"file", "none"} :
             fn_in = TimecodeCall(hh, mm, ss, ff, <<>>, p, <<DurationLine(hh, mm, ss, ff), l>>)
       \/ \E ls \in OtherReports :
             fn_in = TimecodeCall(<<>>, <<>>, <<>>, <<>>, <<>>, "file", ls)

\* FileOperations.py:1539-1599
return_input_duration_in_sec_call ==
    /\ fn_in.fn = "_return_input_duration_in_sec"
    /\ fn_out = NoResult
    /\ fn_out' = [kind |-> "done"]
                 @@ return_input_duration_in_sec(fn_in.convert_str, fn_in.in_path, fn_in.filter_output)
    /\ UNCHANGED <<pipelineVars, fn_in>>

NextTimecode == return_input_duration_in_sec_call

SpecTimecode == InitTimecode /\ [][NextTimecode]_vars

\* ----------------------------------------------------------------------
\* Properties of _return_input_duration_in_sec
\* ----------------------------------------------------------------------
TimecodeDone == fn_in.fn = "_return_input_duration_in_sec" /\ fn_out.kind = "done"
\* the call converts a string it is given
StringGiven == TimecodeDone /\ fn_in.convert_str # <<>>
\* the call takes the duration of a file that prints a Duration line with
\* a further line of text after it
DurationOfFile ==
    /\ TimecodeDone /\ fn_in.convert_str = <<>> /\ fn_in.in_path = "file"
    /\ Len(fn_in.lines) = 2 /\ fn_in.h # <<>> /\ IntOf(fn_in.h) <= 23
    /\ EndsValue(fn_in.lines[2])

\* C23: for a text with 'Duration: HH:MM:SS.ff', a comma-separated part
\* and a further line, extraction and conversion give
\* HH*3600 + MM*60 + SS seconds and ff hundredths.
C23_DurationInSeconds ==
    DurationOfFile
        => /\ fn_out.end = "return"
           /\ fn_out.seconds.sec = IntOf(fn_in.h) * 3600 + IntOf(fn_in.m) * 60 + IntOf(fn_in.s)
           /\ fn_out.seconds.micro = IntOf(fn_in.f) * 10000
C23_Witness ==
    /\ DurationOfFile
    /\ fn_in.h = <<"0", "0">> /\ fn_in.m = <<"0", "1">> /\ fn_in.s = <<"3", "0">> /\ fn_in.f = <<"2", "5">>
    /\ fn_out.end = "return"
    /\ fn_out.seconds = [sec |-> 90, micro |-> 250000]

HasDot(d) == KeywordIn(<<".">>, d)
\* the format the length and the '.' select, "" for a rejected string
SelectedFormat(d) ==
    IF ~HasDot(d)
    THEN IF Len(d) > 6 THEN "%H:%M:%S"
         ELSE IF Len(d) \in 4..6 THEN "%M:%S"
         ELSE IF Len(d) \in 1..2 THEN "%S"
         ELSE ""
    ELSE IF Len(d) > 9 THEN "%H:%M:%S.%f"
         ELSE IF Len(d) \in 6..9 THEN "%M:%S.%f"
         ELSE IF Len(d) \in 4..5 THEN "%S.%f"
         ELSE ""

\* C24: a given string is converted in the format its length and its '.'
\* select; a string that is rejected or does not parse in that format
\* ends the call fatally, and no string makes the call return None.
C24_FormatByLengthOrFatal ==
    StringGiven
        => /\ fn_out.end \in {"return", "quit"}
           /\ fn_out.format = SelectedFormat(fn_in.convert_str)
           /\ (SelectedFormat(fn_in.convert_str) = "") => (fn_out.end = "quit")
           /\ (fn_out.end = "return")
                 => strptime(fn_in.convert_str, SelectedFormat(fn_in.convert_str)).ok

\* the digits after the '.' of a timecode
FractionOf(d) == IF HasDot(d) THEN SliceFrom(d, FindFirst(d, <<".">>) + 1) ELSE <<>>
\* the fields before the '.', the last being the seconds
FieldsOf(d) ==
    SplitChar(IF HasDot(d) THEN Slice(d, 0, FindFirst(d, <<".">>)) ELSE d, ":")
WholeSecondsOf(d) ==
    LET p == FieldsOf(d) IN
    IntOf(p[Len(p)]) + (IF Len(p) >= 2 THEN IntOf(p[Len(p) - 1]) * 60 ELSE 0)
    + (IF Len(p) >= 3 THEN IntOf(p[Len(p) - 2]) * 3600 ELSE 0)
TwoDigits(n) == IF n < 10 THEN <<"0">> \o StrOf(n) ELSE StrOf(n)
\* a number of seconds written as HH:MM:SS.ff
TwoDigitTimecode(x) ==
    TwoDigits(x.sec \div 3600) \o <<":">> \o TwoDigits((x.sec % 3600) \div 60) \o <<":">>
    \o TwoDigits(x.sec % 60) \o <<".">> \o TwoDigits(x.micro \div 10000)

\* C25: an accepted timecode with at most two digits after the '.' gives
\* hours*3600 + minutes*60 + seconds and its fraction in hundredths
\* (.05 is five hundredths, .5 is fifty); written back as HH:MM:SS.ff
\* and converted again it gives the same value.
C25_ExactAndRoundTrip ==
    (StringGiven /\ fn_out.end = "return" /\ Len(FractionOf(fn_in.convert_str)) <= 2)
        => /\ fn_out.seconds.sec = WholeSecondsOf(fn_in.convert_str)
           /\ fn_out.seconds.micro =
                 IntOf(FractionOf(fn_in.convert_str))
                 * Pow10(2 - Len(FractionOf(fn_in.convert_str))) * 10000
           /\ duration_in_sec(StrV(TwoDigitTimecode(fn_out.seconds)))
                 = DurationResult("return", "%H:%M:%S.%f", fn_out.seconds)
C25_Witness ==
    /\ StringGiven /\ fn_out.end = "return"
    /\ fn_in.convert_str = <<"1", ":", "0", "1", ":", "3", "0", ".", "0", "5">>
    /\ fn_out.seconds = [sec |-> 3690, micro |-> 50000]

\* C28: a given string with more than two digits after the '.' ends the
\* call fatally.
C28_ThreeDigitsRejected ==
    (StringGiven /\ Len(FractionOf(fn_in.convert_str)) > 2) => fn_out.end = "quit"

\* ======================================================================
\* Render.terminal_render_timer
\* ----------------------------------------------------------------------
MaxElapsed == 3700

\* Render.py:203-205, a unit of the text: its number (with the hundredths
\* for the seconds) and whether the unit's name is in the plural
TimePart(unit, value, frac, plural) ==
    [unit |-> unit, value |-> value, frac |-> frac, plural |-> plural]

\* Render.py:166-215, terminal_render_timer for an elapsed time that
\* '0.2f' writes as whole . hundredths: the begin word and the units that
\* the returned text shows, in order
terminal_render_timer(whole, hundredths, operation_keyword) ==
    LET seconds == whole % 60
        minutes == (whole \div 60) % 60
        hours == (whole \div 60) \div 60
        total_sec == TimePart("second", seconds, hundredths, ~(seconds = 1 /\ hundredths = 0))
        total_min == TimePart("minute", minutes, 0, minutes # 1)
        total_hr == TimePart("hour", hours, 0, hours # 1)
    IN  [begin_word |-> IF operation_keyword = " to scan" THEN "took" ELSE "Over the course of",
         parts |-> IF hours >= 1 /\ minutes >= 1 THEN <<total_hr, total_min, total_sec>>
                   ELSE IF minutes >= 1 THEN <<total_min, total_sec>>
                   ELSE <<total_sec>>,
         operation_keyword |-> operation_keyword]

InitTimer ==
    /\ PipelineIdle
    /\ fn_out = NoResult
    /\ \E w \in 0..MaxElapsed, h \in {0, 25}, k \in {"", " to scan"} :
          fn_in = [fn |-> "terminal_render_timer", whole |-> w, hundredths |-> h,
                   operation_keyword |-> k]

\* Render.py:166-215
terminal_render_timer_call ==
    /\ fn_in.fn = "terminal_render_timer"
    /\ fn_out = NoResult
    /\ fn_out' = [kind |-> "done"]
                 @@ terminal_render_timer(fn_in.whole, fn_in.hundredths, fn_in.operation_keyword)
    /\ UNCHANGED <<pipelineVars, fn_in>>

NextTimer == terminal_render_timer_call

SpecTimer == InitTimer /\ [][NextTimer]_vars

\* ----------------------------------------------------------------------
\* Properties of terminal_render_timer
\* ----------------------------------------------------------------------
TimerDone == fn_in.fn = "terminal_render_timer" /\ fn_out.kind = "done"
SecondsIn(unit) == IF unit = "hour" THEN 3600 ELSE IF unit = "minute" THEN 60 ELSE 1
RECURSIVE ShownSeconds(_)
ShownSeconds(parts) ==
    IF parts = <<>> THEN 0
    ELSE parts[1].value * SecondsIn(parts[1].unit) + ShownSeconds(Tail(parts))

\* C30: the hours, minutes and seconds shown in the text add up to the
\* elapsed whole seconds.
C30_TextAccountsForElapsed ==
    TimerDone => ShownSeconds(fn_out.parts) = fn_in.whole

\* ----------------------------------------------------------------------
\* The printing flags
\* ----------------------------------------------------------------------
\* C29: where a method reads a printing flag, what it does next is the
\* same for both values of the flag: extract_artwork on the suffix of its
\* input, rm_artwork on what the probe of its input reports.
C29_FlagsOnlyPrint ==
    \A c \in Calls :
        /\ pc[c] = "ea_suffix"
              => (ExtractUnsupported(cfg[c].in_suffix, TRUE)
                    <=> ExtractUnsupported(cfg[c].in_suffix, FALSE))
        /\ pc[c] = "rm_probe"
              => \A o \in StreamProbe(fs, out_path(c)) \cap {"art", "noart"} :
                    RmArtworkNoArt(o = "art", TRUE) <=> RmArtworkNoArt(o = "art", FALSE)
====
